---- MODULE Spec2Model ----
(***************************************************************************)
(* Model of the nutrition deficiency risk assessment engine               *)
(* (backend/nutrition/deficiency_engine.py with who_benchmarks.py and     *)
(* geographic_risk.py).                                                   *)
(*                                                                        *)
(* Numbers.  The engine computes with Python floats (IEEE-754 binary64,   *)
(* round-to-nearest-even).  A float is modelled exactly: its magnitude is *)
(* a natural number counting units of 2^-65, held as a little-endian      *)
(* sequence of 13-bit limbs (TLC's integers are 32 bits wide), and every  *)
(* arithmetic operation computes the exact result and rounds it to 53     *)
(* significant bits, as the hardware does.  Values printed with           *)
(* round(x, n) are held as the integer x * 10^n.                          *)
(*                                                                        *)
(* Text.  Strings are TLA+ strings; lower(), `in` and f-string            *)
(* concatenation are computed character by character.                     *)
(***************************************************************************)
EXTENDS Integers, Sequences, FiniteSets, TLC

(***************************************************************************)
(* Natural numbers of arbitrary size: little-endian limb sequences, no    *)
(* leading zero limb; <<>> is zero.                                       *)
(***************************************************************************)
LimbBits == 13
LimbBase == 8192
FracLimbs == 5

RECURSIVE Trim(_)
Trim(a) == IF a = <<>> THEN <<>>
           ELSE IF a[Len(a)] = 0 THEN Trim(SubSeq(a, 1, Len(a) - 1)) ELSE a

RECURSIVE NatLimbs(_)
NatLimbs(n) == IF n = 0 THEN <<>> ELSE <<n % LimbBase>> \o NatLimbs(n \div LimbBase)

RECURSIVE LimbsNat(_)
LimbsNat(a) == IF a = <<>> THEN 0 ELSE a[1] + LimbBase * LimbsNat(Tail(a))

Limb(a, i) == IF i <= Len(a) THEN a[i] ELSE 0

RECURSIVE AddCarry(_, _, _, _)
AddCarry(a, b, i, c) ==
    IF i > Len(a) /\ i > Len(b)
    THEN (IF c = 0 THEN <<>> ELSE <<c>>)
    ELSE LET t == Limb(a, i) + Limb(b, i) + c
         IN  <<t % LimbBase>> \o AddCarry(a, b, i + 1, t \div LimbBase)

BAdd(a, b) == AddCarry(a, b, 1, 0)

RECURSIVE SubBorrow(_, _, _, _)
SubBorrow(a, b, i, c) ==
    IF i > Len(a) THEN <<>>
    ELSE LET t == Limb(a, i) - Limb(b, i) - c
         IN  IF t < 0 THEN <<t + LimbBase>> \o SubBorrow(a, b, i + 1, 1)
             ELSE <<t>> \o SubBorrow(a, b, i + 1, 0)

\* a - b for a >= b
BSub(a, b) == Trim(SubBorrow(a, b, 1, 0))

RECURSIVE CmpFrom(_, _, _)
CmpFrom(a, b, i) ==
    IF i = 0 THEN 0
    ELSE IF a[i] > b[i] THEN 1
    ELSE IF a[i] < b[i] THEN -1
    ELSE CmpFrom(a, b, i - 1)

\* -1, 0, 1 as a < b, a = b, a > b
BCmp(a, b) == IF Len(a) > Len(b) THEN 1
              ELSE IF Len(a) < Len(b) THEN -1
              ELSE CmpFrom(a, b, Len(a))

RECURSIVE MulLimbCarry(_, _, _, _)
MulLimbCarry(a, d, i, c) ==
    IF i > Len(a) THEN NatLimbs(c)
    ELSE LET t == a[i] * d + c
         IN  <<t % LimbBase>> \o MulLimbCarry(a, d, i + 1, t \div LimbBase)

\* a * d for a single limb d
BMulLimb(a, d) == Trim(MulLimbCarry(a, d, 1, 0))

Zeros(n) == [i \in 1..n |-> 0]

ShlLimbs(a, n) == IF a = <<>> THEN <<>> ELSE Zeros(n) \o a

ShrLimbs(a, n) == IF n >= Len(a) THEN <<>> ELSE SubSeq(a, n + 1, Len(a))

RECURSIVE MulFrom(_, _, _)
MulFrom(a, b, i) ==
    IF i > Len(b) THEN <<>>
    ELSE BAdd(ShlLimbs(BMulLimb(a, b[i]), i - 1), MulFrom(a, b, i + 1))

BMul(a, b) == Trim(MulFrom(a, b, 1))

RECURSIVE SmallBitLen(_)
SmallBitLen(n) == IF n = 0 THEN 0 ELSE 1 + SmallBitLen(n \div 2)

BitLen(a) == IF a = <<>> THEN 0
             ELSE LimbBits * (Len(a) - 1) + SmallBitLen(a[Len(a)])

\* a * 2^k
BShl(a, k) == ShlLimbs(BMulLimb(a, 2 ^ (k % LimbBits)), k \div LimbBits)

RECURSIVE ShrBitsFrom(_, _, _)
ShrBitsFrom(a, r, i) ==
    IF i > Len(a) THEN <<>>
    ELSE <<(a[i] \div (2 ^ r)) + (Limb(a, i + 1) % (2 ^ r)) * (2 ^ (LimbBits - r))>>
         \o ShrBitsFrom(a, r, i + 1)

\* floor(a / 2^k)
BShr(a, k) == LET s == ShrLimbs(a, k \div LimbBits)
              IN  Trim(ShrBitsFrom(s, k % LimbBits, 1))

RECURSIVE DigitBits(_, _, _, _)
\* bit j of the quotient digit is set when t = d * 2^j still fits in r
DigitStep(r, t, d, j, acc) ==
    IF BCmp(r, t) >= 0 THEN DigitBits(BSub(r, t), d, j - 1, acc + 2 ^ j)
    ELSE DigitBits(r, d, j - 1, acc)

DigitBits(r, d, j, acc) ==
    \* the quotient digit acc + floor(r / d) < 2^(j+1) and the remainder, bit by bit
    IF j < 0 THEN <<acc, r>>
    ELSE DigitStep(r, BMulLimb(d, 2 ^ j), d, j, acc)

RECURSIVE DivLimbs(_, _, _, _)
\* dg = <<digit, remainder>> of limb i: the lower limbs follow from the remainder
\* (the test settles the digit before the lower limbs are divided)
DivStep(n, d, i, dg) ==
    IF dg[1] >= 0 THEN Append(DivLimbs(n, d, i - 1, dg[2]), dg[1]) ELSE <<>>

DivLimbs(n, d, i, r) ==
    \* long division, one limb of n at a time from limb i down to limb 1:
    \* the remainder followed by the quotient's limbs 1..i (little-endian)
    IF i = 0 THEN <<r>>
    ELSE DivStep(n, d, i, DigitBits(Trim(<<n[i]>> \o r), d, LimbBits - 1, 0))

QuotRem(qr) == <<Trim(Tail(qr)), qr[1]>>

\* <<floor(n / d), n mod d>> for d > 0
BDivMod(n, d) == QuotRem(DivLimbs(n, d, Len(n), <<>>))

(***************************************************************************)
(* IEEE-754 binary64 with round-to-nearest, ties-to-even.                 *)
(***************************************************************************)
MantBits == 53

\* the nearest number of at most 53 significant bits
\* c compares the dropped bits with one half: up on more, on a tie up to the even q
RoundsUp(c, q) == c > 0 \/ (c = 0 /\ q[1] % 2 = 1)

\* n with its low sh bits rounded away, q being floor(n / 2^sh)
RoundLow(n, sh, q) ==
    BShl(IF RoundsUp(BCmp(BSub(n, BShl(q, sh)), BShl(<<1>>, sh - 1)), q)
         THEN BAdd(q, <<1>>) ELSE q,
         sh)

RoundBits(n, sh) == IF sh <= 0 THEN n ELSE RoundLow(n, sh, BShr(n, sh))

Round53(n) == RoundBits(n, BitLen(n) - MantBits)

Float(neg, mag) == [neg |-> neg /\ mag # <<>>, mag |-> mag]

FInt(n) == Float(n < 0, ShlLimbs(NatLimbs(IF n < 0 THEN -n ELSE n), FracLimbs))

FZero == FInt(0)

FNeg(x) == Float(~x.neg, x.mag)

\* A float far below the resolution of the magnitudes above: Tiny(neg, e) is a float
\* whose absolute value lies in [10^e, 10^(e+1)), for -300 <= e <= -170.  It is normal
\* (above 2.3e-308), a hundredth of it is normal, and the product of two such floats
\* underflows to 0.0.  The requests give such a value to height_cm only, and the code
\* compares height_cm with other floats, divides it by 100 and squares the quotient.
Tiny(neg, e) == [neg |-> neg, mag |-> <<>>, exp10 |-> e]
IsTiny(x) == "exp10" \in DOMAIN x
InTinyRange(e) == -300 <= e /\ e <= -170

\* -1, 0, 1 for a comparison in which x or y is tiny; two tiny floats of one sign and
\* one exponent are not told apart
TinyCmp(x, y) ==
    IF x.neg /\ ~y.neg THEN -1
    ELSE IF ~x.neg /\ y.neg THEN 1
    ELSE IF IsTiny(x) /\ IsTiny(y)
    THEN (IF x.exp10 = y.exp10 THEN 0
          ELSE IF (x.exp10 < y.exp10) = x.neg THEN 1 ELSE -1)
    ELSE IF IsTiny(x) THEN (IF (y.mag = <<>>) = x.neg THEN -1 ELSE 1)
    ELSE (IF (x.mag = <<>>) = y.neg THEN 1 ELSE -1)

FAdd(x, y) ==
    IF x.neg = y.neg THEN Float(x.neg, Round53(BAdd(x.mag, y.mag)))
    ELSE LET c == BCmp(x.mag, y.mag)
         IN  IF c = 0 THEN FZero
             ELSE IF c > 0 THEN Float(x.neg, Round53(BSub(x.mag, y.mag)))
             ELSE Float(y.neg, Round53(BSub(y.mag, x.mag)))

FSub(x, y) == FAdd(x, FNeg(y))

FMul(x, y) ==
    IF IsTiny(x) /\ IsTiny(y) THEN FZero
    ELSE Float(x.neg # y.neg, ShrLimbs(Round53(BMul(x.mag, y.mag)), FracLimbs))

\* twice the quotient, plus a sticky bit when the division left a remainder
Sticky(qr) == BAdd(BMulLimb(qr[1], 2), IF qr[2] = <<>> THEN <<>> ELSE <<1>>)

FDiv(x, y) ==
    \* a tiny float divided by 100 is two decimal exponents lower
    IF IsTiny(x) /\ y = FInt(100) THEN Tiny(x.neg, x.exp10 - 2)
    ELSE
    \* the quotient to 2 * 65 more bits, with a sticky bit for the remainder
    Float(x.neg # y.neg,
          ShrLimbs(BShr(Round53(Sticky(BDivMod(ShlLimbs(x.mag, 3 * FracLimbs), y.mag))), 1),
                   2 * FracLimbs))

\* -1, 0, 1 as x < y, x = y, x > y
FCmp(x, y) ==
    IF IsTiny(x) \/ IsTiny(y) THEN TinyCmp(x, y)
    ELSE IF x.neg /\ ~y.neg THEN -1
    ELSE IF ~x.neg /\ y.neg THEN 1
    ELSE IF x.neg THEN BCmp(y.mag, x.mag)
    ELSE BCmp(x.mag, y.mag)

FLt(x, y) == FCmp(x, y) < 0
FLe(x, y) == FCmp(x, y) <= 0

\* a decimal literal n/d of the source: the float nearest to it
Dec(n, d) == FDiv(FInt(n), FInt(d))

\* Python's round(x, digits) for x >= 0, as the integer round(x, digits) * 10^digits:
\* the exact value of x * 10^digits rounded to the nearest integer, ties to even
TiesToEven(ip, c) == IF c > 0 \/ (c = 0 /\ ip % 2 = 1) THEN ip + 1 ELSE ip

\* the integer nearest to p / 2^65: its integer part, and its fraction against one half
NearestInt(p) ==
    TiesToEven(LimbsNat(ShrLimbs(p, FracLimbs)),
               BCmp(Trim(SubSeq(p \o Zeros(FracLimbs), 1, FracLimbs)),
                    ShlLimbs(<<LimbBase \div 2>>, FracLimbs - 1)))

Signed(neg, t) == IF neg THEN -t ELSE t

RoundDec(x, digits) == Signed(x.neg, NearestInt(BMulLimb(x.mag, 10 ^ digits)))

(***************************************************************************)
(* Text: str.lower(), the `in` operator on strings, str(int).             *)
(***************************************************************************)
UpperLetters == "ABCDEFGHIJKLMNOPQRSTUVWXYZ"
LowerLetters == "abcdefghijklmnopqrstuvwxyz"
Digits == "0123456789"

Char(s, i) == SubSeq(s, i, i)

\* the 1-based position of character c in s, 0 when absent
RECURSIVE IndexFrom(_, _, _)
IndexFrom(s, c, i) ==
    IF i > Len(s) THEN 0
    ELSE IF Char(s, i) = c THEN i
    ELSE IndexFrom(s, c, i + 1)

LowerChar(c) == LET i == IndexFrom(UpperLetters, c, 1)
                IN  IF i = 0 THEN c ELSE Char(LowerLetters, i)

RECURSIVE LowerFrom(_, _)
LowerFrom(s, i) == IF i > Len(s) THEN "" ELSE LowerChar(Char(s, i)) \o LowerFrom(s, i + 1)

\* s.lower()
Lower(s) == LowerFrom(s, 1)

\* sub in s
Contains(sub, s) ==
    \E i \in 0..(Len(s) - Len(sub)) : SubSeq(s, i + 1, i + Len(sub)) = sub

RECURSIVE NatStr(_)
NatStr(n) == IF n < 10 THEN Char(Digits, n + 1)
             ELSE NatStr(n \div 10) \o Char(Digits, (n % 10) + 1)

\* str(n) for an int n
IntStr(n) == IF n < 0 THEN "-" \o NatStr(-n) ELSE NatStr(n)

(***************************************************************************)
(* Values.  A value of the input mapping is a tagged record: a string, a  *)
(* number n/d (an int when d = 1, otherwise the float nearest to n/d), or *)
(* None; Absent marks a key the mapping does not hold.  A number the      *)
(* engine emits is held as [n, digits]: the int n when digits = 0,        *)
(* otherwise the float n / 10^digits that round(x, digits) returned.      *)
(***************************************************************************)
StrV(s) == [t |-> "str", s |-> s, n |-> 0, d |-> 1]
NumV(n, d) == [t |-> "num", s |-> "", n |-> n, d |-> d]
NoneV == [t |-> "none", s |-> "", n |-> 0, d |-> 1]
Absent == [t |-> "absent", s |-> "", n |-> 0, d |-> 1]
\* the list ['a'] and the mapping {'a': 1}, given where a text or a number is expected
ListV == [t |-> "list", s |-> "", n |-> 1, d |-> 1]
DictV == [t |-> "dict", s |-> "", n |-> 1, d |-> 1]

\* a field value, as opposed to a mapping of keys to field values
IsValue(v) == "t" \in DOMAIN v

\* the mapping's entry whether or not the key is there
C17_NoDefault(mapping, key, default) == mapping[key]

\* dict.get(key, default) on a mapping held as a record of values
Get(mapping, key, default) == IF mapping[key].t = "absent" THEN default ELSE mapping[key]

\* Python truthiness of a value
Truthy(v) == \/ v.t = "str" /\ v.s # ""
             \/ v.t = "num" /\ v.n # 0
             \/ v.t \in {"list", "dict"}

PyInt(k) == [n |-> k, digits |-> 0]
PyRound(x, digits) == [n |-> RoundDec(x, digits), digits |-> digits]

\* an emitted number in thousandths, to compare emitted numbers with each other
Milli(v) == v.n * (10 ^ (3 - v.digits))

RECURSIVE FracStr(_, _)
FracStr(n, digits) ==
    \* the digits after the decimal point, without trailing zeros, at least one
    IF digits > 1 /\ n % 10 = 0 THEN FracStr(n \div 10, digits - 1)
    ELSE IF digits = 1 THEN NatStr(n)
    ELSE FracStr(n \div 10, digits - 1) \o NatStr(n % 10)

\* str(v) for an emitted number: "100" for the int, "92.5" or "9.0" for a float
NumStr(v) ==
    IF v.digits = 0 THEN IntStr(v.n)
    ELSE LET a == IF v.n < 0 THEN -v.n ELSE v.n
         IN  (IF v.n < 0 THEN "-" ELSE "") \o NatStr(a \div (10 ^ v.digits)) \o "."
             \o FracStr(a % (10 ^ v.digits), v.digits)

\* str(x) for a float x whose shortest representation has at most two decimals
FloatStr(x) == NumStr(PyRound(x, 2))

(***************************************************************************)
(* Reference tables (module-level dicts).  A dict is a sequence of its    *)
(* entries in insertion order, which is the order a for loop visits them. *)
(* Decimal literals are written as scaled integers and converted to the   *)
(* float nearest to them where the code computes with them.               *)
(***************************************************************************)
Nutrients == <<"iron", "vitamin_b12", "vitamin_d", "calcium", "magnesium", "zinc", "protein">>
NutrientSet == {Nutrients[i] : i \in 1..Len(Nutrients)}

\* HABIT_NUTRIENT_PATTERNS: <<pattern, <<nutrient, impact in hundredths>>...>>, in source order
HABIT_NUTRIENT_PATTERNS == <<
    <<"tea", <<<<"iron", -15>>, <<"vitamin_b12", 0>>, <<"calcium", 5>>>>>>,
    <<"coffee", <<<<"iron", -10>>, <<"vitamin_b12", 0>>, <<"calcium", -5>>, <<"magnesium", -10>>>>>>,
    <<"milk", <<<<"calcium", 30>>, <<"vitamin_d", 15>>, <<"protein", 15>>, <<"vitamin_b12", 20>>>>>>,
    <<"eggs", <<<<"protein", 20>>, <<"vitamin_b12", 25>>, <<"vitamin_d", 15>>, <<"iron", 10>>>>>>,
    <<"fruit", <<<<"vitamin_c", 30>>, <<"magnesium", 10>>>>>>,
    <<"cereal", <<<<"iron", 15>>, <<"vitamin_b12", 10>>, <<"zinc", 10>>>>>>,
    <<"oats", <<<<"iron", 15>>, <<"magnesium", 15>>, <<"zinc", 10>>, <<"protein", 10>>>>>>,
    <<"poha", <<<<"iron", 20>>, <<"vitamin_b12", 0>>, <<"carbohydrates", 20>>>>>>,
    <<"upma", <<<<"iron", 10>>, <<"protein", 10>>, <<"carbohydrates", 20>>>>>>,
    <<"idli", <<<<"protein", 15>>, <<"iron", 10>>, <<"vitamin_b12", 5>>>>>>,
    <<"dosa", <<<<"protein", 10>>, <<"iron", 10>>, <<"vitamin_b12", 5>>>>>>,
    <<"paratha", <<<<"protein", 10>>, <<"iron", 10>>, <<"carbohydrates", 25>>>>>>,
    <<"bread", <<<<"iron", 8>>, <<"protein", 5>>, <<"carbohydrates", 20>>>>>>,
    <<"skip", <<<<"iron", -20>>, <<"vitamin_b12", -15>>, <<"protein", -15>>, <<"calcium", -15>>>>>>,
    <<"skip breakfast", <<<<"iron", -20>>, <<"vitamin_b12", -15>>, <<"protein", -15>>, <<"calcium", -15>>>>>>,
    <<"rice", <<<<"iron", 10>>, <<"protein", 10>>, <<"carbohydrates", 30>>>>>>,
    <<"roti", <<<<"iron", 15>>, <<"protein", 10>>, <<"magnesium", 10>>>>>>,
    <<"chapati", <<<<"iron", 15>>, <<"protein", 10>>, <<"magnesium", 10>>>>>>,
    <<"dal", <<<<"iron", 25>>, <<"protein", 35>>, <<"zinc", 15>>, <<"magnesium", 20>>>>>>,
    <<"lentils", <<<<"iron", 25>>, <<"protein", 35>>, <<"zinc", 15>>, <<"magnesium", 20>>>>>>,
    <<"vegetables", <<<<"iron", 15>>, <<"magnesium", 20>>, <<"vitamin_c", 20>>>>>>,
    <<"salad", <<<<"iron", 10>>, <<"magnesium", 15>>, <<"vitamin_c", 25>>>>>>,
    <<"curd", <<<<"calcium", 25>>, <<"vitamin_b12", 15>>, <<"protein", 15>>>>>>,
    <<"yogurt", <<<<"calcium", 25>>, <<"vitamin_b12", 15>>, <<"protein", 15>>>>>>,
    <<"paneer", <<<<"calcium", 30>>, <<"protein", 25>>, <<"vitamin_b12", 10>>>>>>,
    <<"chicken", <<<<"protein", 40>>, <<"iron", 20>>, <<"zinc", 30>>, <<"vitamin_b12", 35>>>>>>,
    <<"fish", <<<<"protein", 35>>, <<"vitamin_d", 30>>, <<"vitamin_b12", 40>>, <<"zinc", 20>>>>>>,
    <<"mutton", <<<<"protein", 35>>, <<"iron", 30>>, <<"zinc", 35>>, <<"vitamin_b12", 40>>>>>>,
    <<"egg curry", <<<<"protein", 25>>, <<"vitamin_b12", 30>>, <<"iron", 15>>>>>>,
    <<"fast food", <<<<"iron", -10>>, <<"zinc", -10>>, <<"magnesium", -15>>, <<"protein", 10>>>>>>,
    <<"outside food", <<<<"iron", -5>>, <<"zinc", -5>>, <<"magnesium", -10>>>>>>,
    <<"evening tea", <<<<"iron", -10>>, <<"calcium", 5>>>>>>,
    <<"snacks", <<<<"magnesium", -5>>, <<"zinc", -5>>>>>>,
    <<"fruits", <<<<"vitamin_c", 25>>, <<"magnesium", 10>>>>>>,
    <<"nuts", <<<<"magnesium", 25>>, <<"zinc", 20>>, <<"protein", 15>>, <<"iron", 10>>>>>>,
    <<"light dinner", <<<<"protein", 15>>, <<"iron", 10>>, <<"calcium", 10>>>>>>,
    <<"heavy dinner", <<<<"protein", 25>>, <<"iron", 20>>, <<"carbohydrates", 30>>>>>>,
    <<"late dinner", <<<<"magnesium", -10>>, <<"vitamin_d", -5>>>>>>,
    <<"soup", <<<<"protein", 10>>, <<"iron", 10>>, <<"magnesium", 10>>>>>>,
    <<"khichdi", <<<<"protein", 20>>, <<"iron", 15>>, <<"zinc", 10>>>>>>,
    <<"sabzi", <<<<"iron", 15>>, <<"magnesium", 15>>, <<"vitamin_c", 10>>>>>>,
    <<"buttermilk", <<<<"calcium", 15>>, <<"vitamin_b12", 10>>, <<"protein", 10>>>>>>,
    <<"lassi", <<<<"calcium", 20>>, <<"vitamin_b12", 10>>, <<"protein", 15>>>>>>
>>

\* LIFESTYLE_IMPACTS: <<pattern, <<nutrient, impact in hundredths>>...>>, in source order
LIFESTYLE_IMPACTS == <<
    <<"sedentary", <<<<"vitamin_d", -30>>, <<"magnesium", -20>>, <<"calcium", -15>>>>>>,
    <<"desk job", <<<<"vitamin_d", -25>>, <<"magnesium", -15>>>>>>,
    <<"office work", <<<<"vitamin_d", -20>>, <<"magnesium", -10>>>>>>,
    <<"active", <<<<"vitamin_d", 10>>, <<"magnesium", 10>>, <<"calcium", 10>>>>>>,
    <<"outdoor", <<<<"vitamin_d", 30>>, <<"magnesium", 10>>>>>>,
    <<"gym", <<<<"protein", 10>>, <<"magnesium", 15>>, <<"zinc", 10>>>>>>,
    <<"exercise", <<<<"protein", 10>>, <<"magnesium", 10>>, <<"calcium", 10>>>>>>,
    <<"smoking", <<<<"vitamin_c", -30>>, <<"vitamin_d", -20>>, <<"calcium", -20>>>>>>,
    <<"alcohol", <<<<"vitamin_b12", -25>>, <<"magnesium", -20>>, <<"zinc", -15>>>>>>,
    <<"stress", <<<<"magnesium", -25>>, <<"vitamin_b12", -15>>, <<"zinc", -10>>>>>>
>>

\* REGIONAL_ANEMIA_PREVALENCE, in source order; prevalence in tenths of a percent
REGIONAL_ANEMIA_PREVALENCE == <<
    [state |-> "Delhi", prevalence |-> 520, urban_rural |-> "urban", severity |-> "high"],
    [state |-> "Punjab", prevalence |-> 463, urban_rural |-> "mixed", severity |-> "moderate"],
    [state |-> "Haryana", prevalence |-> 544, urban_rural |-> "mixed", severity |-> "high"],
    [state |-> "Uttar Pradesh", prevalence |-> 504, urban_rural |-> "mixed", severity |-> "high"],
    [state |-> "Rajasthan", prevalence |-> 544, urban_rural |-> "mixed", severity |-> "high"],
    [state |-> "Madhya Pradesh", prevalence |-> 530, urban_rural |-> "mixed", severity |-> "high"],
    [state |-> "Uttarakhand", prevalence |-> 436, urban_rural |-> "mixed", severity |-> "moderate"],
    [state |-> "Himachal Pradesh", prevalence |-> 405, urban_rural |-> "rural", severity |-> "moderate"],
    [state |-> "Jammu and Kashmir", prevalence |-> 480, urban_rural |-> "mixed", severity |-> "moderate"],
    [state |-> "Maharashtra", prevalence |-> 480, urban_rural |-> "mixed", severity |-> "moderate"],
    [state |-> "Gujarat", prevalence |-> 626, urban_rural |-> "mixed", severity |-> "critical"],
    [state |-> "Goa", prevalence |-> 392, urban_rural |-> "urban", severity |-> "moderate"],
    [state |-> "Tamil Nadu", prevalence |-> 532, urban_rural |-> "mixed", severity |-> "high"],
    [state |-> "Kerala", prevalence |-> 363, urban_rural |-> "mixed", severity |-> "moderate"],
    [state |-> "Karnataka", prevalence |-> 478, urban_rural |-> "mixed", severity |-> "moderate"],
    [state |-> "Andhra Pradesh", prevalence |-> 580, urban_rural |-> "mixed", severity |-> "high"],
    [state |-> "Telangana", prevalence |-> 576, urban_rural |-> "mixed", severity |-> "high"],
    [state |-> "West Bengal", prevalence |-> 607, urban_rural |-> "mixed", severity |-> "critical"],
    [state |-> "Odisha", prevalence |-> 643, urban_rural |-> "mixed", severity |-> "critical"],
    [state |-> "Bihar", prevalence |-> 635, urban_rural |-> "mixed", severity |-> "critical"],
    [state |-> "Jharkhand", prevalence |-> 653, urban_rural |-> "mixed", severity |-> "critical"],
    [state |-> "Assam", prevalence |-> 664, urban_rural |-> "mixed", severity |-> "critical"],
    [state |-> "Meghalaya", prevalence |-> 560, urban_rural |-> "rural", severity |-> "high"],
    [state |-> "Manipur", prevalence |-> 390, urban_rural |-> "mixed", severity |-> "moderate"],
    [state |-> "Mizoram", prevalence |-> 350, urban_rural |-> "mixed", severity |-> "moderate"],
    [state |-> "Nagaland", prevalence |-> 280, urban_rural |-> "rural", severity |-> "low"],
    [state |-> "Tripura", prevalence |-> 540, urban_rural |-> "mixed", severity |-> "high"],
    [state |-> "Arunachal Pradesh", prevalence |-> 420, urban_rural |-> "rural", severity |-> "moderate"],
    [state |-> "Sikkim", prevalence |-> 340, urban_rural |-> "rural", severity |-> "moderate"],
    [state |-> "Chhattisgarh", prevalence |-> 600, urban_rural |-> "mixed", severity |-> "critical"]
>>

\* GROUNDWATER_MINERAL_DATA, in source order
GROUNDWATER_MINERAL_DATA == <<
    [state |-> "Delhi", fluoride |-> "high", arsenic |-> "moderate", iron |-> "moderate", nitrate |-> "high",
     hardness |-> "high", health_impact |-> "Dental fluorosis risk, potential thyroid issues"],
    [state |-> "Punjab", fluoride |-> "moderate", arsenic |-> "moderate", iron |-> "low", nitrate |-> "high",
     hardness |-> "moderate", health_impact |-> "Agricultural nitrate contamination common"],
    [state |-> "Gujarat", fluoride |-> "very_high", arsenic |-> "low", iron |-> "moderate", nitrate |-> "moderate",
     hardness |-> "high", health_impact |-> "Severe fluorosis endemic areas"],
    [state |-> "Rajasthan", fluoride |-> "very_high", arsenic |-> "low", iron |-> "low", nitrate |-> "high",
     hardness |-> "very_high", health_impact |-> "Fluorosis belt, hard water common"],
    [state |-> "West Bengal", fluoride |-> "moderate", arsenic |-> "very_high", iron |-> "high", nitrate |-> "moderate",
     hardness |-> "moderate", health_impact |-> "Arsenic contamination in groundwater, iron toxicity risk"],
    [state |-> "Bihar", fluoride |-> "moderate", arsenic |-> "high", iron |-> "high", nitrate |-> "moderate",
     hardness |-> "moderate", health_impact |-> "Arsenic belt along Ganga plains"],
    [state |-> "Andhra Pradesh", fluoride |-> "high", arsenic |-> "low", iron |-> "moderate", nitrate |-> "high",
     hardness |-> "high", health_impact |-> "Fluoride endemic zones"],
    [state |-> "Tamil Nadu", fluoride |-> "moderate", arsenic |-> "low", iron |-> "low", nitrate |-> "moderate",
     hardness |-> "high", health_impact |-> "Hard water belt, affects calcium absorption"],
    [state |-> "Karnataka", fluoride |-> "high", arsenic |-> "low", iron |-> "moderate", nitrate |-> "moderate",
     hardness |-> "moderate", health_impact |-> "Fluorosis in certain districts"],
    [state |-> "Maharashtra", fluoride |-> "moderate", arsenic |-> "low", iron |-> "moderate", nitrate |-> "moderate",
     hardness |-> "moderate", health_impact |-> "Generally acceptable water quality"],
    [state |-> "Kerala", fluoride |-> "low", arsenic |-> "low", iron |-> "high", nitrate |-> "low",
     hardness |-> "low", health_impact |-> "High iron content in some areas"],
    [state |-> "Odisha", fluoride |-> "moderate", arsenic |-> "moderate", iron |-> "high", nitrate |-> "moderate",
     hardness |-> "moderate", health_impact |-> "Iron contamination common"]
>>

\* VITAMIN_D_REGIONAL_RISK, in source order; factor in hundredths
VITAMIN_D_REGIONAL_RISK == <<
    [state |-> "Delhi", risk_level |-> "high", factor |-> 130, reason |-> "Urban indoor lifestyle, pollution reducing UV"],
    [state |-> "Punjab", risk_level |-> "moderate", factor |-> 110, reason |-> "Seasonal variation in sun exposure"],
    [state |-> "Haryana", risk_level |-> "moderate", factor |-> 110, reason |-> "Mixed urban-rural pattern"],
    [state |-> "Uttar Pradesh", risk_level |-> "moderate", factor |-> 115, reason |-> "Large population with varied exposure"],
    [state |-> "Maharashtra", risk_level |-> "moderate", factor |-> 120, reason |-> "High urbanization in Mumbai, Pune"],
    [state |-> "Gujarat", risk_level |-> "moderate", factor |-> 100, reason |-> "Good sun exposure but indoor work common"],
    [state |-> "Tamil Nadu", risk_level |-> "moderate", factor |-> 100, reason |-> "Good sun availability"],
    [state |-> "Kerala", risk_level |-> "low", factor |-> 90, reason |-> "Adequate sun exposure, coastal lifestyle"],
    [state |-> "Karnataka", risk_level |-> "moderate", factor |-> 115, reason |-> "Bangalore IT sector indoor work"],
    [state |-> "Andhra Pradesh", risk_level |-> "moderate", factor |-> 100, reason |-> "Mixed exposure patterns"],
    [state |-> "West Bengal", risk_level |-> "high", factor |-> 125, reason |-> "High vegetarian population, less fortified foods"],
    [state |-> "Odisha", risk_level |-> "moderate", factor |-> 105, reason |-> "Rural areas have better exposure"],
    [state |-> "Bihar", risk_level |-> "high", factor |-> 120, reason |-> "Indoor work patterns, dietary limitations"],
    [state |-> "default", risk_level |-> "moderate", factor |-> 110, reason |-> "National average applied"]
>>

\* DIETARY_RISK_FACTORS, in source order; multipliers in tenths
DIETARY_RISK_FACTORS == <<
    [diet |-> "vegetarian", high_risk |-> <<"vitamin_b12", "iron", "zinc">>, moderate_risk |-> <<"protein">>,
     factor_multiplier |-> <<<<"vitamin_b12", 18>>, <<"iron", 14>>, <<"zinc", 13>>, <<"protein", 12>>>>],
    [diet |-> "vegan", high_risk |-> <<"vitamin_b12", "iron", "zinc", "calcium">>, moderate_risk |-> <<"protein", "vitamin_d">>,
     factor_multiplier |-> <<<<"vitamin_b12", 25>>, <<"iron", 15>>, <<"zinc", 14>>, <<"calcium", 15>>, <<"protein", 13>>, <<"vitamin_d", 13>>>>],
    [diet |-> "non_vegetarian", high_risk |-> <<>>, moderate_risk |-> <<"magnesium">>,
     factor_multiplier |-> <<<<"magnesium", 11>>>>],
    [diet |-> "pescatarian", high_risk |-> <<>>, moderate_risk |-> <<"zinc", "magnesium">>,
     factor_multiplier |-> <<<<"zinc", 11>>, <<"magnesium", 11>>>>],
    [diet |-> "eggetarian", high_risk |-> <<"vitamin_b12">>, moderate_risk |-> <<"iron", "zinc">>,
     factor_multiplier |-> <<<<"vitamin_b12", 14>>, <<"iron", 12>>, <<"zinc", 12>>>>]
>>

\* RECOMMENDED_LAB_TESTS: the primary test of each nutrient
RECOMMENDED_LAB_TESTS == <<
    <<"iron", "Complete Blood Count (CBC) with Serum Ferritin">>,
    <<"vitamin_b12", "Serum Vitamin B12">>,
    <<"vitamin_d", "25-Hydroxy Vitamin D (25-OH Vitamin D)">>,
    <<"calcium", "Serum Calcium, Ionized Calcium">>,
    <<"magnesium", "Serum Magnesium">>,
    <<"zinc", "Serum Zinc">>,
    <<"protein", "Serum Total Protein, Albumin">>
>>

\* WHO_RDA_BENCHMARKS in tenths of the unit: <<nutrient, <<male by age band>>, <<female by age band, pregnant, lactating>>>>
WHO_RDA_BENCHMARKS == <<
    <<"iron", <<70, 100, 80, 110, 80, 80>>, <<70, 100, 80, 150, 180, 80, 270, 90>>>>,
    <<"vitamin_b12", <<9, 12, 18, 24, 24, 24>>, <<9, 12, 18, 24, 24, 24, 26, 28>>>>,
    <<"vitamin_d", <<6000, 6000, 6000, 6000, 6000, 8000>>, <<6000, 6000, 6000, 6000, 6000, 8000, 6000, 6000>>>>,
    <<"calcium", <<7000, 10000, 13000, 13000, 10000, 12000>>, <<7000, 10000, 13000, 13000, 10000, 12000, 10000, 13000>>>>,
    <<"magnesium", <<800, 1300, 2400, 4100, 4000, 4200>>, <<800, 1300, 2400, 3600, 3100, 3200, 3500, 3100>>>>,
    <<"zinc", <<30, 50, 80, 110, 110, 110>>, <<30, 50, 80, 90, 80, 80, 110, 120>>>>,
    <<"protein", <<130, 190, 340, 520, 560, 560>>, <<130, 190, 340, 460, 460, 460, 710, 710>>>>
>>

\* the float of a literal given in hundredths (impacts, vitamin-D factors)
HundredthF == [h \in 0..130 |-> Dec(h, 100)]
Hundredths(h) == IF h < 0 THEN FNeg(HundredthF[-h]) ELSE HundredthF[h]

\* the float of a literal given in tenths (diet multipliers)
TenthF == [t \in 0..30 |-> Dec(t, 10)]

RdaValues == UNION {{WHO_RDA_BENCHMARKS[i][2][j] : j \in 1..6} \cup
                    {WHO_RDA_BENCHMARKS[i][3][j] : j \in 1..8} : i \in 1..Len(WHO_RDA_BENCHMARKS)}
\* the float of an RDA given in tenths
RdaF == [t \in RdaValues \cup {0} |-> Dec(t, 10)]

(***************************************************************************)
(* who_benchmarks.py                                                      *)
(***************************************************************************)
\* the position of the age band in a row of WHO_RDA_BENCHMARKS
get_age_category(age) ==
    IF FLe(age, FInt(3)) THEN 1
    ELSE IF FLe(age, FInt(8)) THEN 2
    ELSE IF FLe(age, FInt(13)) THEN 3
    ELSE IF FLe(age, FInt(18)) THEN 4
    ELSE IF FLe(age, FInt(50)) THEN 5
    ELSE 6

RdaRow(nutrient) == CHOOSE i \in 1..Len(WHO_RDA_BENCHMARKS) : WHO_RDA_BENCHMARKS[i][1] = nutrient

\* the RDA in tenths of the nutrient's unit; gender is a string, health_category a value
get_rda_for_user(nutrient, gender, age, health_category) ==
    LET gender_key == IF Lower(gender) \in {"male", "female"} THEN Lower(gender) ELSE "female"
        row == WHO_RDA_BENCHMARKS[RdaRow(nutrient)]
        health_lower == Lower(health_category.s)
    IN  IF Truthy(health_category) /\ health_lower = "pregnant" /\ gender_key = "female"
        THEN row[3][7]
        ELSE IF Truthy(health_category) /\ health_lower = "lactating" /\ gender_key = "female"
        THEN row[3][8]
        ELSE IF gender_key = "male" THEN row[2][get_age_category(age)]
        ELSE row[3][get_age_category(age)]

\* the category chosen from the unrounded BMI
BmiCategory(bmi) ==
    IF FLt(bmi, Dec(185, 10)) THEN "underweight"
    ELSE IF FLt(bmi, FInt(25)) THEN "normal"
    ELSE IF FLt(bmi, FInt(30)) THEN "overweight"
    ELSE "obese"

BmiInterpretation(category) ==
    CASE category = "underweight" ->
           "BMI indicates underweight status. May indicate nutritional deficiency risk, particularly for protein, iron, and B-vitamins."
      [] category = "normal" ->
           "BMI is within healthy range. Focus on maintaining balanced nutrition."
      [] category = "overweight" ->
           "BMI indicates overweight status. May benefit from dietary modifications and increased physical activity."
      [] OTHER ->
           "BMI indicates obesity. Higher risk for certain nutrient deficiencies despite excess caloric intake."

\* height_m ** 2, rounded once
Square(height_m) == FMul(height_m, height_m)

\* weight_kg / (height_cm / 100) ** 2, each operation rounded
BmiOf(weight_kg, height_cm) == FDiv(weight_kg, Square(FDiv(height_cm, FInt(100))))

\* the result for a BMI: the value rounded to two decimals, the category of the
\* unrounded value
BmiResult(bmi) ==
    [bmi_value |-> PyRound(bmi, 2), category |-> BmiCategory(bmi),
     interpretation |-> BmiInterpretation(BmiCategory(bmi))]

calculate_bmi(weight_kg, height_cm) ==
    IF FLe(height_cm, FZero) \/ FLe(weight_kg, FZero)
    THEN [bmi_value |-> PyInt(0), category |-> "unknown",
          interpretation |-> "Invalid measurements"]
    ELSE BmiResult(BmiOf(weight_kg, height_cm))

classify_risk_level(probability_percent) ==
    IF FLe(probability_percent, FInt(30)) THEN "low"
    ELSE IF FLe(probability_percent, FInt(60)) THEN "moderate"
    ELSE IF FLe(probability_percent, FInt(80)) THEN "high"
    ELSE "critical"

(***************************************************************************)
(* geographic_risk.py                                                     *)
(***************************************************************************)
RECURSIVE ExactKey(_, _, _)
ExactKey(table, location, i) ==
    \* location in TABLE: the entry whose key equals the location, 0 when none
    IF i > Len(table) THEN 0
    ELSE IF table[i].state = location THEN i
    ELSE ExactKey(table, location, i + 1)

\* the loop returning at its first entry, matched or not
C8_ReturnsFirst(table, location_lower, i) == IF i > Len(table) THEN 0 ELSE i

RECURSIVE PartialKey(_, _, _)
PartialKey(table, location_lower, i) ==
    \* the first entry whose lowered key is in the lowered location or holds it
    IF i > Len(table) THEN 0
    ELSE IF \/ Contains(Lower(table[i].state), location_lower)
            \/ Contains(location_lower, Lower(table[i].state))
         THEN i
    ELSE PartialKey(table, location_lower, i + 1)

\* the entry a lookup of the location finds: exact key first, then partial match
LookupKey(table, location) ==
    LET e == ExactKey(table, location, 1)
    IN  IF e # 0 THEN e ELSE PartialKey(table, Lower(location), 1)

NationalAnemia ==
    [state |-> "", prevalence |-> 520, urban_rural |-> "mixed", severity |-> "moderate"]

get_regional_anemia_data(location) ==
    LET i == LookupKey(REGIONAL_ANEMIA_PREVALENCE, location)
    IN  IF i # 0 THEN REGIONAL_ANEMIA_PREVALENCE[i] ELSE NationalAnemia

NationalGroundwater ==
    [state |-> "", fluoride |-> "moderate", arsenic |-> "low", iron |-> "moderate",
     nitrate |-> "moderate", hardness |-> "moderate",
     health_impact |-> "Regional data unavailable, using national baseline"]

get_groundwater_data(location) ==
    LET i == LookupKey(GROUNDWATER_MINERAL_DATA, location)
    IN  IF i # 0 THEN GROUNDWATER_MINERAL_DATA[i] ELSE NationalGroundwater

get_vitamin_d_regional_risk(location) ==
    LET i == LookupKey(VITAMIN_D_REGIONAL_RISK, location)
    IN  IF i # 0 THEN VITAMIN_D_REGIONAL_RISK[i]
        ELSE VITAMIN_D_REGIONAL_RISK[ExactKey(VITAMIN_D_REGIONAL_RISK, "default", 1)]

RECURSIVE DietKey(_, _)
DietKey(diet_lower, i) ==
    IF i > Len(DIETARY_RISK_FACTORS) THEN 0
    ELSE IF \/ Contains(DIETARY_RISK_FACTORS[i].diet, diet_lower)
            \/ Contains(diet_lower, DIETARY_RISK_FACTORS[i].diet)
         THEN i
    ELSE DietKey(diet_lower, i + 1)

DietIndex(diet) == CHOOSE i \in 1..Len(DIETARY_RISK_FACTORS) : DIETARY_RISK_FACTORS[i].diet = diet

\* dietary_preference is a value holding a string
get_dietary_risk_factors(dietary_preference) ==
    LET diet_lower == IF Truthy(dietary_preference) THEN Lower(dietary_preference.s)
                      ELSE "non_vegetarian"
        i == DietKey(diet_lower, 1)
    IN  IF i # 0 THEN DIETARY_RISK_FACTORS[i]
        ELSE DIETARY_RISK_FACTORS[DietIndex("non_vegetarian")]

get_recommended_test(nutrient) ==
    LET hit == {i \in 1..Len(RECOMMENDED_LAB_TESTS) : RECOMMENDED_LAB_TESTS[i][1] = nutrient}
    IN  IF hit # {} THEN RECOMMENDED_LAB_TESTS[CHOOSE i \in hit : TRUE][2]
        ELSE "Comprehensive metabolic panel"

(***************************************************************************)
(* deficiency_engine.py: NutritionDeficiencyEngine                        *)
(***************************************************************************)
\* requests: the request mappings the callers may submit
\* eng:      one NutritionDeficiencyEngine per call of assess_nutrition_deficiency, with
\*           the position of analyze() in it (pc) and the locals analyze() holds
\* log:      the results returned so far, in the order the calls returned
VARIABLES requests, eng, log

vars == <<requests, eng, log>>

QKeys == {"fatigue", "hair_fall", "muscle_cramps", "sun_exposure_minutes_per_day",
          "dairy_servings_per_day", "green_leafy_frequency_per_week", "water_source"}

\* the value a <<nutrient, value>> list gives a nutrient, 0 when it has none
RECURSIVE PickFrom(_, _, _)
PickFrom(pairs, nutrient, i) ==
    IF i > Len(pairs) THEN 0
    ELSE IF pairs[i][1] = nutrient THEN pairs[i][2]
    ELSE PickFrom(pairs, nutrient, i + 1)

Pick(pairs, nutrient) == PickFrom(pairs, nutrient, 1)

RECURSIVE RemoveChar(_, _, _)
RemoveChar(s, c, i) ==
    IF i > Len(s) THEN ""
    ELSE (IF Char(s, i) = c THEN "" ELSE Char(s, i)) \o RemoveChar(s, c, i + 1)

RECURSIVE Strip(_)
Strip(s) == IF s = "" THEN ""
            ELSE IF Char(s, 1) = " " THEN Strip(SubSeq(s, 2, Len(s)))
            ELSE IF Char(s, Len(s)) = " " THEN Strip(SubSeq(s, 1, Len(s) - 1))
            ELSE s

AllDigits(s) == \A i \in 1..Len(s) : IndexFrom(Digits, Char(s, i), 1) # 0

RECURSIVE DigitsNat(_, _)
DigitsNat(s, i) == IF i = 0 THEN 0
                   ELSE (IndexFrom(Digits, Char(s, i), 1) - 1) + 10 * DigitsNat(s, i - 1)

\* the parts of a numeral [sign] digits [. digits]: its sign, its digits without the
\* point, and the number of digits behind the point; ok is FALSE where it is none
ParseDecimal(s) ==
    LET neg  == s # "" /\ Char(s, 1) = "-"
        body == IF s # "" /\ Char(s, 1) \in {"-", "+"} THEN SubSeq(s, 2, Len(s)) ELSE s
        dot  == IndexFrom(body, ".", 1)
        ip   == IF dot = 0 THEN body ELSE SubSeq(body, 1, dot - 1)
        fp   == IF dot = 0 THEN "" ELSE SubSeq(body, dot + 1, Len(body))
        ok   == AllDigits(ip) /\ AllDigits(fp) /\ Len(ip) + Len(fp) > 0
    IN  [ok |-> ok, neg |-> neg, places |-> Len(fp),
         n |-> IF ok THEN DigitsNat(ip \o fp, Len(ip) + Len(fp)) ELSE 0]

\* the float n * 10^scale: computed where the numbers fit, tiny where it is far
\* below the resolution.  A numeral between or beyond these has no value here.
Scaled(neg, n, scale) ==
    IF n = 0 THEN FZero
    ELSE IF scale >= 0 /\ scale + Len(NatStr(n)) <= 9
    THEN Float(neg, Dec(n * (10 ^ scale), 1).mag)
    ELSE IF scale < 0 /\ -scale <= 9
    THEN Float(neg, Dec(n, 10 ^ (-scale)).mag)
    ELSE IF InTinyRange(scale + Len(NatStr(n)) - 1)
    THEN Tiny(neg, scale + Len(NatStr(n)) - 1)
    ELSE CHOOSE x \in {} : TRUE

\* the position of the exponent mark of a numeral, 0 when it has none
ExponentAt(s) == IF IndexFrom(s, "e", 1) # 0 THEN IndexFrom(s, "e", 1)
                 ELSE IndexFrom(s, "E", 1)

\* float(s) for a numeral [sign] digits [. digits] [e [sign] digits]; ok is FALSE where
\* float() raises ValueError
ParseFloat(s) ==
    LET at   == ExponentAt(s)
        mant == ParseDecimal(IF at = 0 THEN s ELSE SubSeq(s, 1, at - 1))
        exp  == ParseDecimal(IF at = 0 THEN "0" ELSE SubSeq(s, at + 1, Len(s)))
        ok   == mant.ok /\ exp.ok /\ exp.places = 0
                /\ (at # 0 => IndexFrom(SubSeq(s, at + 1, Len(s)), ".", 1) = 0)
    IN  [ok |-> ok,
         x  |-> IF ok THEN Scaled(mant.neg, mant.n,
                                  (IF exp.neg THEN -exp.n ELSE exp.n) - mant.places)
                ELSE FZero]

_parse_numeric(value) ==
    IF value.t = "num" THEN Dec(value.n, value.d)
    ELSE IF value.t = "str" THEN ParseFloat(Strip(RemoveChar(value.s, ",", 1))).x
    ELSE FZero

UserKeys == {"age", "gender", "height_cm", "weight_kg", "health_category", "dietary_preference",
             "location", "morning_habits", "afternoon_habits", "evening_habits"}

\* a dict literal with the given <<key, value>> items; the other keys are absent
Mapping(keys, items) ==
    [k \in keys |-> IF \E i \in 1..Len(items) : items[i][1] = k
                    THEN items[CHOOSE i \in 1..Len(items) : items[i][1] = k][2]
                    ELSE Absent]

\* the request mapping: its own items and the items of questionnaire_responses
UserData(items, answers) ==
    Mapping(UserKeys, items) @@ [questionnaire_responses |-> Mapping(QKeys, answers)]

\* an __init__ that writes the defaults of the fields left out into the caller's mapping
C20_FillDefaults(user_data) ==
    [user_data          |-> [key \in DOMAIN user_data |->
                                IF key \in {"morning_habits", "afternoon_habits",
                                            "evening_habits", "location"}
                                THEN Get(user_data, key, StrV("")) ELSE user_data[key]],
     age                |-> _parse_numeric(Get(user_data, "age", NumV(25, 1))),
     gender             |-> Get(user_data, "gender", StrV("female")),
     height_cm          |-> _parse_numeric(Get(user_data, "height_cm", NumV(160, 1))),
     weight_kg          |-> _parse_numeric(Get(user_data, "weight_kg", NumV(60, 1))),
     health_category    |-> Get(user_data, "health_category", StrV("adult")),
     dietary_preference |-> Get(user_data, "dietary_preference", StrV("vegetarian")),
     location           |-> Get(user_data, "location", StrV("")),
     morning_habits     |-> Get(user_data, "morning_habits", StrV("")),
     afternoon_habits   |-> Get(user_data, "afternoon_habits", StrV("")),
     evening_habits     |-> Get(user_data, "evening_habits", StrV("")),
     questionnaire      |-> IF IsValue(user_data.questionnaire_responses)
                             THEN Get(user_data, "questionnaire_responses",
                                      Mapping(QKeys, <<>>))
                             ELSE user_data.questionnaire_responses,
     bmi_analysis       |-> <<>>,
     deficiency_risks   |-> <<>>,
     alerts             |-> <<>>,
     recommendations    |-> <<>>,
     visualization_data |-> <<>>]

\* __init__: the engine's fields from the input mapping
EngineInit(user_data) ==
    [user_data          |-> user_data,
     age                |-> _parse_numeric(Get(user_data, "age", NumV(25, 1))),
     gender             |-> Get(user_data, "gender", StrV("female")),
     height_cm          |-> _parse_numeric(Get(user_data, "height_cm", NumV(160, 1))),
     weight_kg          |-> _parse_numeric(Get(user_data, "weight_kg", NumV(60, 1))),
     health_category    |-> Get(user_data, "health_category", StrV("adult")),
     dietary_preference |-> Get(user_data, "dietary_preference", StrV("vegetarian")),
     location           |-> Get(user_data, "location", StrV("")),
     morning_habits     |-> Get(user_data, "morning_habits", StrV("")),
     afternoon_habits   |-> Get(user_data, "afternoon_habits", StrV("")),
     evening_habits     |-> Get(user_data, "evening_habits", StrV("")),
     questionnaire      |-> IF IsValue(user_data.questionnaire_responses)
                             THEN Get(user_data, "questionnaire_responses",
                                      Mapping(QKeys, <<>>))
                             ELSE user_data.questionnaire_responses,
     bmi_analysis       |-> <<>>,
     deficiency_risks   |-> <<>>,
     alerts             |-> <<>>,
     recommendations    |-> <<>>,
     visualization_data |-> <<>>]

\* 14 <= age <= 50 and the like
Between(lo, x, hi) == FLe(FInt(lo), x) /\ FLe(x, FInt(hi))

AgeRisks(age) ==
    IF FLt(age, FInt(5)) THEN <<<<"iron", 15>>, <<"zinc", 10>>, <<"vitamin_d", 10>>>>
    ELSE IF FLe(FInt(60), age)
    THEN <<<<"vitamin_b12", 20>>, <<"vitamin_d", 15>>, <<"calcium", 15>>>>
    ELSE IF Between(14, age, 18) THEN <<<<"iron", 15>>, <<"calcium", 10>>, <<"zinc", 10>>>>
    ELSE <<>>

\* both deltas for every female user, whatever her age
C14_NoAgeCheck(gender, age) ==
    IF Lower(gender.s) = "female" THEN <<<<"iron", 20>>, <<"calcium", 10>>>> ELSE <<>>

GenderRisks(gender, age) ==
    IF Lower(gender.s) = "female"
    THEN (IF Between(14, age, 50) THEN <<<<"iron", 20>>>> ELSE <<>>) \o <<<<"calcium", 10>>>>
    ELSE <<>>

HealthRisks(health_category) ==
    LET health_cat == IF Truthy(health_category) THEN Lower(health_category.s) ELSE ""
    IN  IF Contains("pregnant", health_cat)
        THEN <<<<"iron", 25>>, <<"calcium", 15>>, <<"vitamin_d", 15>>, <<"vitamin_b12", 15>>,
               <<"protein", 15>>>>
        ELSE IF Contains("lactating", health_cat)
        THEN <<<<"calcium", 20>>, <<"vitamin_d", 10>>, <<"vitamin_b12", 10>>, <<"protein", 10>>>>
        ELSE <<>>

\* every category but normal and overweight and obese taken for underweight
C10_UnknownAsUnderweight(bmi_category) ==
    IF bmi_category \in {"underweight", "unknown"}
    THEN <<<<"protein", 25>>, <<"iron", 20>>, <<"vitamin_b12", 15>>, <<"zinc", 15>>>>
    ELSE IF bmi_category = "obese" THEN <<<<"vitamin_d", 20>>, <<"magnesium", 15>>>>
    ELSE <<>>

BmiRisks(bmi_category) ==
    IF bmi_category = "underweight"
    THEN <<<<"protein", 25>>, <<"iron", 20>>, <<"vitamin_b12", 15>>, <<"zinc", 15>>>>
    ELSE IF bmi_category = "obese" THEN <<<<"vitamin_d", 20>>, <<"magnesium", 15>>>>
    ELSE <<>>

\* the default multiplier whatever the diet's table holds
C11_DefaultMultiplier(diet_factors, nutrient, default) == TenthF[default]

\* the multiplier in tenths, default when the diet's table has none for the nutrient
Multiplier(diet_factors, nutrient, default) ==
    LET m == Pick(diet_factors.factor_multiplier, nutrient)
    IN  TenthF[IF m = 0 THEN default ELSE m]

\* for nutrient in names: risks[nutrient] += weight * multiplier
RECURSIVE AddDietRisks(_, _, _, _, _, _)
AddDietRisks(risks, diet_factors, names, weight, default, i) ==
    IF i > Len(names) THEN risks
    ELSE AddDietRisks(
           [risks EXCEPT ![names[i]] =
               FAdd(@, FMul(FInt(weight), Multiplier(diet_factors, names[i], default)))],
           diet_factors, names, weight, default, i + 1)

\* the age, gender, life-stage and BMI deltas are ints: their sum is exact
_map_demographic_risks(self) ==
    LET ints == [n \in NutrientSet |->
                   FInt(Pick(AgeRisks(self.age), n) + Pick(GenderRisks(self.gender, self.age), n)
                        + Pick(HealthRisks(self.health_category), n)
                        + Pick(BmiRisks(self.bmi_analysis.category), n))]
        diet_factors == get_dietary_risk_factors(self.dietary_preference)
        high == AddDietRisks(ints, diet_factors, diet_factors.high_risk, 25, 15, 1)
    IN  AddDietRisks(high, diet_factors, diet_factors.moderate_risk, 15, 12, 1)

\* The effects of one period are listed in the order the loops apply them and then
\* applied to each nutrient's entry: an entry only changes by its own nutrient's effects.

\* one effect of a habit pattern: the impact, and the evidence its branch records
HabitEffect(pattern, time_period, nutrient, impact) ==
    [nutrient |-> nutrient, impact |-> impact,
     sources  |-> IF impact > 0 THEN <<pattern \o " (" \o time_period \o ")">> ELSE <<>>,
     patterns |-> IF impact > 0 THEN <<>> ELSE <<pattern \o " reduces absorption">>]

\* one effect of a lifestyle: the impact, and the pattern a negative impact records
LifestyleEffect(lifestyle, nutrient, impact) ==
    [nutrient |-> nutrient, impact |-> impact, sources |-> <<>>,
     patterns |-> IF impact < 0 THEN <<lifestyle \o " lifestyle">> ELSE <<>>]

\* for pattern, effects in HABIT_NUTRIENT_PATTERNS.items(): if pattern in habit_str
RECURSIVE ScanHabits(_, _, _)
ScanHabits(habit_str, time_period, i) ==
    IF i > Len(HABIT_NUTRIENT_PATTERNS) THEN <<>>
    ELSE LET pattern == HABIT_NUTRIENT_PATTERNS[i][1]
             effects == HABIT_NUTRIENT_PATTERNS[i][2]
         IN  (IF Contains(pattern, habit_str)
              THEN [j \in 1..Len(effects) |->
                      HabitEffect(pattern, time_period, effects[j][1], effects[j][2])]
              ELSE <<>>)
             \o ScanHabits(habit_str, time_period, i + 1)

\* for lifestyle, impacts in LIFESTYLE_IMPACTS.items(): if lifestyle in habit_str
RECURSIVE ScanLifestyle(_, _)
ScanLifestyle(habit_str, i) ==
    IF i > Len(LIFESTYLE_IMPACTS) THEN <<>>
    ELSE LET lifestyle == LIFESTYLE_IMPACTS[i][1]
             impacts   == LIFESTYLE_IMPACTS[i][2]
         IN  (IF Contains(lifestyle, habit_str)
              THEN [j \in 1..Len(impacts) |->
                      LifestyleEffect(lifestyle, impacts[j][1], impacts[j][2])]
              ELSE <<>>)
             \o ScanLifestyle(habit_str, i + 1)

\* nutrient_scores[nutrient] after the effects from the j-th on; `if nutrient in
\* nutrient_scores` holds for the effects on this nutrient and no others
RECURSIVE ApplyEffects(_, _, _, _)
ApplyEffects(entry, nutrient, effects, j) ==
    IF j > Len(effects) THEN entry
    ELSE IF effects[j].nutrient # nutrient THEN ApplyEffects(entry, nutrient, effects, j + 1)
    ELSE ApplyEffects([score    |-> FAdd(entry.score, Hundredths(effects[j].impact)),
                       sources  |-> entry.sources \o effects[j].sources,
                       patterns |-> entry.patterns \o effects[j].patterns],
                      nutrient, effects, j + 1)

_analyze_habit_string(habit_str, time_period, nutrient_scores) ==
    IF habit_str = "" THEN nutrient_scores
    ELSE LET effects == ScanHabits(habit_str, time_period, 1) \o ScanLifestyle(habit_str, 1)
         IN  [n \in NutrientSet |-> ApplyEffects(nutrient_scores[n], n, effects, 1)]

\* the score left as the three periods made it
C2_NoCap(score) == score

\* max(0.1, min(1.0, score))
CapScore(score) ==
    LET lo == IF FLt(score, FInt(1)) THEN score ELSE FInt(1)
    IN  IF FLt(HundredthF[10], lo) THEN lo ELSE HundredthF[10]

LowerOrEmpty(v) == IF Truthy(v) THEN Lower(v.s) ELSE ""

\* every nutrient starts at 0.5; morning, afternoon and evening are scanned in turn
ScannedScores(self) ==
    _analyze_habit_string(LowerOrEmpty(self.evening_habits), "evening",
        _analyze_habit_string(LowerOrEmpty(self.afternoon_habits), "afternoon",
            _analyze_habit_string(LowerOrEmpty(self.morning_habits), "morning",
                [n \in NutrientSet |->
                    [score |-> HundredthF[50], sources |-> <<>>, patterns |-> <<>>]])))

CapScores(nutrient_scores) ==
    [n \in NutrientSet |-> [nutrient_scores[n] EXCEPT !.score = CapScore(@)]]

_analyze_dietary_patterns(self) == CapScores(ScannedScores(self))

\* the contributions the three regional lookups of the location give
RegionalRisks(self) ==
    LET anemia_data == get_regional_anemia_data(self.location.s)
        prevalence  == anemia_data.prevalence
        water_data  == get_groundwater_data(self.location.s)
        vit_d_data  == get_vitamin_d_regional_risk(self.location.s)
        fluoride    == water_data.fluoride \in {"high", "very_high"}
        arsenic     == water_data.arsenic \in {"high", "very_high"}
        urban       == anemia_data.urban_rural = "urban"
        vit_d       == FMul(FSub(HundredthF[vit_d_data.factor], FInt(1)), FInt(30))
    IN  [n \in NutrientSet |->
           CASE n = "iron" ->
                  FInt((IF prevalence >= 600 THEN 25
                        ELSE IF prevalence >= 500 THEN 15
                        ELSE IF prevalence >= 400 THEN 10 ELSE 0)
                       + (IF arsenic THEN 10 ELSE 0))
             [] n = "calcium" -> FInt(IF fluoride THEN 10 ELSE 0)
             [] n = "magnesium" ->
                  FInt((IF fluoride THEN 10 ELSE 0) + (IF urban THEN 5 ELSE 0))
             [] n = "zinc" -> FInt(IF arsenic THEN 10 ELSE 0)
             [] n = "vitamin_d" ->
                  LET base == FAdd(FZero, vit_d)
                  IN  IF urban THEN FAdd(base, FInt(10)) ELSE base
             [] OTHER -> FZero]

\* the lookups made whatever the location is
C7_NoBlankGuard(self) == RegionalRisks(self)

_integrate_geographic_risks(self) ==
    IF ~Truthy(self.location) THEN [n \in NutrientSet |-> FInt(10)]
    ELSE RegionalRisks(self)

\* str(value)
PyStr(value) ==
    IF value.t = "str" THEN value.s
    ELSE IF value.t = "none" THEN "None"
    ELSE IF value.t = "list" THEN "['a']"
    ELSE IF value.t = "dict" THEN "{'a': 1}"
    ELSE IF value.d = 1 THEN IntStr(value.n)
    ELSE FloatStr(Dec(value.n, value.d))

StrongAnswers == {"yes", "severe", "high", "frequent", "always"}
WeakAnswers == {"moderate", "sometimes", "occasional"}

\* the deltas of one symptom: strong bucket, weaker bucket, else none
SymptomRisks(answer, strong, weak) ==
    IF answer \in StrongAnswers THEN strong
    ELSE IF answer \in WeakAnswers THEN weak
    ELSE <<>>

\* the sum of the deltas of the seven questions; all deltas are ints, so each
\* nutrient's sum is exact in any order
SymptomTotals(parts) ==
    [n \in NutrientSet |->
        FInt(Pick(parts[1], n) + Pick(parts[2], n) + Pick(parts[3], n) + Pick(parts[4], n)
             + Pick(parts[5], n) + Pick(parts[6], n) + Pick(parts[7], n))]

SunRisks(sun_exposure) ==
    IF FLt(sun_exposure, FInt(10)) THEN <<<<"vitamin_d", 30>>>>
    ELSE IF FLt(sun_exposure, FInt(20)) THEN <<<<"vitamin_d", 20>>>>
    ELSE IF FLt(sun_exposure, FInt(30)) THEN <<<<"vitamin_d", 10>>>>
    ELSE <<<<"vitamin_d", -10>>>>

DairyRisks(dairy) ==
    IF FLt(dairy, FInt(1))
    THEN <<<<"calcium", 25>>, <<"vitamin_b12", 15>>, <<"vitamin_d", 10>>>>
    ELSE IF FLt(dairy, FInt(2)) THEN <<<<"calcium", 10>>, <<"vitamin_b12", 5>>>>
    ELSE <<>>

GreensRisks(greens) ==
    IF FLt(greens, FInt(2))
    THEN <<<<"iron", 20>>, <<"magnesium", 15>>, <<"calcium", 10>>>>
    ELSE IF FLt(greens, FInt(4)) THEN <<<<"iron", 10>>, <<"magnesium", 5>>>>
    ELSE <<>>

WaterRisks(water_source) ==
    IF \/ Contains("bore", water_source)
       \/ Contains("ground", water_source)
       \/ Contains("well", water_source)
    THEN <<<<"calcium", 5>>>> ELSE <<>>

\* str(q.get(key, "")).lower()
Answer(q, key) == Lower(PyStr(Get(q, key, StrV(""))))

_analyze_questionnaire(self) ==
    SymptomTotals(<<
        SymptomRisks(Answer(self.questionnaire, "fatigue"),
            <<<<"iron", 25>>, <<"vitamin_b12", 20>>, <<"vitamin_d", 15>>>>,
            <<<<"iron", 15>>, <<"vitamin_b12", 10>>, <<"vitamin_d", 10>>>>),
        SymptomRisks(Answer(self.questionnaire, "hair_fall"),
            <<<<"iron", 20>>, <<"zinc", 20>>, <<"protein", 15>>, <<"vitamin_d", 10>>>>,
            <<<<"iron", 10>>, <<"zinc", 10>>, <<"protein", 10>>>>),
        SymptomRisks(Answer(self.questionnaire, "muscle_cramps"),
            <<<<"magnesium", 25>>, <<"calcium", 20>>, <<"vitamin_d", 15>>>>,
            <<<<"magnesium", 15>>, <<"calcium", 10>>, <<"vitamin_d", 10>>>>),
        SunRisks(_parse_numeric(
            Get(self.questionnaire, "sun_exposure_minutes_per_day", NumV(30, 1)))),
        DairyRisks(_parse_numeric(
            Get(self.questionnaire, "dairy_servings_per_day", NumV(1, 1)))),
        GreensRisks(_parse_numeric(
            Get(self.questionnaire, "green_leafy_frequency_per_week", NumV(3, 1)))),
        WaterRisks(Answer(self.questionnaire, "water_source"))>>)

NutrientUnit(nutrient) ==
    CASE nutrient \in {"iron", "calcium", "magnesium", "zinc"} -> "mg"
      [] nutrient = "vitamin_b12" -> "mcg"
      [] nutrient = "vitamin_d" -> "IU"
      [] OTHER -> "g"

\* an RDA of the table as the number the code holds: an int, or a float with one decimal
RdaNum(tenths) == IF tenths % 10 = 0 THEN PyInt(tenths \div 10) ELSE [n |-> tenths, digits |-> 1]

\* max(0, (70 - estimated_coverage) * 0.5)
\* max(0, x): x when it is greater than 0, else the 0
NonNegative(x) == IF FLt(FZero, x) THEN x ELSE FZero

\* the penalty without max(0, ...): a bonus for a coverage above 70
C22_SignedPenalty(estimated_coverage) ==
    FMul(FSub(FInt(70), estimated_coverage), HundredthF[50])

CoveragePenalty(estimated_coverage) ==
    NonNegative(FMul(FSub(FInt(70), estimated_coverage), HundredthF[50]))

\* min(100, max(0, total)): the int 0 or 100 at the boundaries, else the float
AtMost100(lo) == IF FLt(lo.x, FInt(100)) THEN lo ELSE [x |-> FInt(100), int |-> TRUE]

\* the clamp without its upper bound
C1_NoUpperClamp(total) ==
    IF FLt(FZero, total) THEN [x |-> total, int |-> FALSE] ELSE [x |-> FZero, int |-> TRUE]

ClampProbability(total) ==
    AtMost100(IF FLt(FZero, total) THEN [x |-> total, int |-> FALSE]
              ELSE [x |-> FZero, int |-> TRUE])

FinalProbability(demographic, geographic, symptom, dietary_score) ==
    ClampProbability(FAdd(FAdd(FAdd(demographic, geographic), symptom),
                          CoveragePenalty(FMul(dietary_score, FInt(100)))))

\* round(final_probability, 1): round() of an int is that int
EmitProbability(final) == IF final.int THEN PyInt(LimbsNat(ShrLimbs(final.x.mag, FracLimbs)))
                          ELSE PyRound(final.x, 1)

FirstN(seq, n) == SubSeq(seq, 1, IF Len(seq) < n THEN Len(seq) ELSE n)

PrevalenceStr(prevalence) == NumStr([n |-> prevalence, digits |-> 1])

\* the causes the demographic contribution adds when it is above 15
DemographicCauses(self, nutrient) ==
    (IF Lower(self.dietary_preference.s) \in {"vegetarian", "vegan"}
        /\ nutrient \in {"vitamin_b12", "iron", "zinc"}
     THEN <<self.dietary_preference.s \o " diet limits " \o nutrient \o " sources">>
     ELSE <<>>)
    \o (IF Lower(self.gender.s) = "female" /\ nutrient = "iron" /\ Between(14, self.age, 50)
        THEN <<"Female reproductive age increases iron needs">> ELSE <<>>)
    \o (IF Contains("pregnant", Lower(PyStr(self.health_category)))
        THEN <<"Pregnancy increases " \o nutrient \o " requirements">> ELSE <<>>)
    \o (IF self.bmi_analysis.category = "underweight" /\ nutrient \in {"protein", "iron"}
        THEN <<"Underweight status suggests inadequate nutrition">> ELSE <<>>)

\* the causes the geographic contribution adds when it is above 10
GeographicCauses(self, nutrient) ==
    (IF nutrient = "iron" /\ get_regional_anemia_data(self.location.s).prevalence > 500
     THEN <<"High regional anemia prevalence ("
            \o PrevalenceStr(get_regional_anemia_data(self.location.s).prevalence) \o "%)">>
     ELSE <<>>)
    \o (IF nutrient = "vitamin_d"
        THEN <<get_vitamin_d_regional_risk(self.location.s).reason>> ELSE <<>>)

LowSunCause(nutrient, sun_exposure) ==
    IF nutrient = "vitamin_d" /\ FLt(sun_exposure, FInt(20))
    THEN <<"Low sun exposure (" \o FloatStr(sun_exposure) \o " min/day)">>
    ELSE <<>>

\* the causes the symptom contribution adds when it is above 15
SymptomCauses(q, nutrient) ==
    (IF Truthy(Get(q, "fatigue", NoneV)) /\ nutrient \in {"iron", "vitamin_b12", "vitamin_d"}
     THEN <<"Fatigue symptoms reported">> ELSE <<>>)
    \o (IF Truthy(Get(q, "hair_fall", NoneV)) /\ nutrient \in {"iron", "zinc"}
        THEN <<"Hair fall symptoms reported">> ELSE <<>>)
    \o (IF Truthy(Get(q, "muscle_cramps", NoneV)) /\ nutrient \in {"magnesium", "calcium"}
        THEN <<"Muscle cramps reported">> ELSE <<>>)
    \o LowSunCause(nutrient,
                   _parse_numeric(Get(q, "sun_exposure_minutes_per_day", NumV(30, 1))))

\* causes[:5] if causes else ["General dietary assessment"]
FirstFiveOrGeneral(causes) ==
    IF causes # <<>> THEN FirstN(causes, 5) ELSE <<"General dietary assessment">>

_determine_primary_causes(self, nutrient, demographic_risks, dietary_estimates, geographic_risks, symptom_risks) ==
    FirstFiveOrGeneral(
        (IF FLt(FInt(15), demographic_risks[nutrient]) THEN DemographicCauses(self, nutrient)
         ELSE <<>>)
        \o (IF FLt(dietary_estimates[nutrient].score, HundredthF[50])
            THEN FirstN(dietary_estimates[nutrient].patterns, 2) ELSE <<>>)
        \o (IF FLt(FInt(10), geographic_risks[nutrient]) THEN GeographicCauses(self, nutrient)
            ELSE <<>>)
        \o (IF FLt(FInt(15), symptom_risks[nutrient])
            THEN SymptomCauses(self.questionnaire, nutrient) ELSE <<>>))

_get_symptom_links(nutrient) ==
    CASE nutrient = "iron" ->
           <<"Fatigue", "Pale skin", "Brittle nails", "Shortness of breath", "Hair loss">>
      [] nutrient = "vitamin_b12" ->
           <<"Fatigue", "Numbness/tingling", "Memory issues", "Mood changes", "Pale skin">>
      [] nutrient = "vitamin_d" ->
           <<"Bone pain", "Muscle weakness", "Fatigue", "Depression", "Frequent illness">>
      [] nutrient = "calcium" ->
           <<"Muscle cramps", "Brittle nails", "Dental problems", "Osteoporosis risk", "Numbness">>
      [] nutrient = "magnesium" ->
           <<"Muscle cramps", "Fatigue", "Weakness", "Poor sleep", "Headaches">>
      [] nutrient = "zinc" ->
           <<"Hair loss", "Poor wound healing", "Loss of taste/smell", "Skin issues",
             "Frequent infections">>
      [] nutrient = "protein" ->
           <<"Muscle loss", "Weakness", "Hair loss", "Slow healing", "Edema">>
      [] OTHER -> <<"General weakness", "Fatigue">>

LocationUnavailable == "Location data unavailable for regional assessment"

_get_geographic_influence(self, nutrient) ==
    IF ~Truthy(self.location) THEN LocationUnavailable
    ELSE LET anemia_data == get_regional_anemia_data(self.location.s)
             water_data  == get_groundwater_data(self.location.s)
         IN  CASE nutrient = "iron" ->
                    "Regional anemia prevalence: " \o PrevalenceStr(anemia_data.prevalence)
                    \o "% (" \o anemia_data.severity \o " severity)"
               [] nutrient = "vitamin_d" -> get_vitamin_d_regional_risk(self.location.s).reason
               [] nutrient \in {"calcium", "magnesium"} ->
                    IF water_data.fluoride \in {"high", "very_high"}
                    THEN "High fluoride in groundwater may affect absorption"
                    ELSE water_data.health_impact
               [] OTHER -> "No specific regional risk for " \o nutrient

\* the numbers of one record: what is classified is the unrounded probability, what
\* is emitted is rounded to one decimal
RiskNumbers(rda, dietary_score, final_probability, unit) ==
    [risk_level          |-> classify_risk_level(final_probability.x),
     probability_percent |-> EmitProbability(final_probability),
     recommended_intake  |-> NumStr(RdaNum(rda)) \o " " \o unit \o "/day",
     estimated_intake    |-> NumStr(PyRound(FMul(RdaF[rda], dietary_score), 1))
                             \o " " \o unit \o "/day",
     coverage_percent    |-> PyRound(FMul(dietary_score, FInt(100)), 1)]

\* the record of one nutrient, before the sort
NutrientRisk(self, nutrient, demographic_risks, dietary_estimates, geographic_risks, symptom_risks) ==
    [nutrient |-> nutrient]
    @@ RiskNumbers(
           get_rda_for_user(nutrient, self.gender.s, self.age, self.health_category),
           dietary_estimates[nutrient].score,
           FinalProbability(demographic_risks[nutrient], geographic_risks[nutrient],
                            symptom_risks[nutrient], dietary_estimates[nutrient].score),
           NutrientUnit(nutrient))
    @@ [primary_causes       |-> _determine_primary_causes(self, nutrient, demographic_risks,
                                     dietary_estimates, geographic_risks, symptom_risks),
        symptom_links        |-> _get_symptom_links(nutrient),
        geographic_influence |-> _get_geographic_influence(self, nutrient)]

\* every record put in front of the ones before it
C12_Prepend(sorted, r, i) == <<r>> \o sorted

\* list.sort(key=probability_percent, reverse=True): stable, so a record goes behind
\* every record already placed whose key is not smaller
RECURSIVE InsertByProbability(_, _, _)
InsertByProbability(sorted, r, i) ==
    IF i > Len(sorted) THEN Append(sorted, r)
    ELSE IF Milli(sorted[i].probability_percent) < Milli(r.probability_percent)
    THEN SubSeq(sorted, 1, i - 1) \o <<r>> \o SubSeq(sorted, i, Len(sorted))
    ELSE InsertByProbability(sorted, r, i + 1)

\* the records left in the order of the nutrient loop
C4_Unsorted(risks, sorted, i) == risks

RECURSIVE SortByProbability(_, _, _)
SortByProbability(risks, sorted, i) ==
    IF i > Len(risks) THEN sorted
    ELSE SortByProbability(risks, InsertByProbability(sorted, risks[i], 1), i + 1)

_calculate_deficiency_risks(self, demographic_risks, dietary_estimates, geographic_risks, symptom_risks) ==
    SortByProbability(
        [i \in 1..Len(Nutrients) |->
            NutrientRisk(self, Nutrients[i], demographic_risks, dietary_estimates,
                         geographic_risks, symptom_risks)],
        <<>>, 1)

\* an alert for every record that is neither critical nor high
C5_AlertsLow(risk) ==
    IF risk.risk_level = "critical"
    THEN <<[type |-> "Critical Alert", nutrient |-> risk.nutrient, message |-> "",
            action |-> "", priority |-> 1]>>
    ELSE IF risk.risk_level = "high"
    THEN <<[type |-> "High Alert", nutrient |-> risk.nutrient, message |-> "",
            action |-> "", priority |-> 2]>>
    ELSE <<[type |-> "Moderate Alert", nutrient |-> risk.nutrient, message |-> "",
            action |-> "", priority |-> 3]>>

\* the alert of one risk record, <<>> for a low risk; the type strings are given
\* without their leading pictograph
AlertOf(risk) ==
    LET nutrient    == risk.nutrient
        probability == NumStr(risk.probability_percent)
    IN  CASE risk.risk_level = "critical" ->
               <<[type     |-> "Critical Alert", nutrient |-> nutrient,
                  message  |-> "Critical " \o nutrient \o " deficiency risk ("
                               \o probability \o "%)",
                  action   |-> "Recommend: " \o get_recommended_test(nutrient),
                  priority |-> 1]>>
          [] risk.risk_level = "high" ->
               <<[type     |-> "High Alert", nutrient |-> nutrient,
                  message  |-> "High " \o nutrient \o " deficiency risk ("
                               \o probability \o "%)",
                  action   |-> "Consider: " \o get_recommended_test(nutrient),
                  priority |-> 2]>>
          [] risk.risk_level = "moderate" ->
               <<[type     |-> "Moderate Alert", nutrient |-> nutrient,
                  message  |-> "Moderate " \o nutrient \o " deficiency risk ("
                               \o probability \o "%)",
                  action   |-> "Dietary modification recommended",
                  priority |-> 3]>>
          [] OTHER -> <<>>

RECURSIVE AlertsFrom(_, _)
AlertsFrom(deficiency_risks, i) ==
    IF i > Len(deficiency_risks) THEN <<>>
    ELSE AlertOf(deficiency_risks[i]) \o AlertsFrom(deficiency_risks, i + 1)

\* the members of the list with the given priority, in list order
RECURSIVE WithPriority(_, _, _)
WithPriority(alerts, priority, i) ==
    IF i > Len(alerts) THEN <<>>
    ELSE (IF alerts[i].priority = priority THEN <<alerts[i]>> ELSE <<>>)
         \o WithPriority(alerts, priority, i + 1)

\* a sort that keeps the alerts of priority 1 and 2 only
C23_UrgentOnly(alerts) ==
    WithPriority(alerts, 1, 1) \o WithPriority(alerts, 2, 1)

\* alerts.sort(key=priority): stable, and the priorities are 1, 2 and 3
SortByPriority(alerts) ==
    WithPriority(alerts, 1, 1) \o WithPriority(alerts, 2, 1) \o WithPriority(alerts, 3, 1)

\* a list shared by all engines: the alerts of the calls that returned come first
C6_SharedAlerts(self) ==
    (IF log = <<>> THEN <<>> ELSE log[Len(log)].output.alerts)
    \o SortByPriority(AlertsFrom(self.deficiency_risks, 1))

_generate_alerts(self) == SortByPriority(AlertsFrom(self.deficiency_risks, 1))

\* food_suggestions[nutrient]: <<for everyone>>, or <<vegetarian, non_vegetarian>>
food_suggestions(nutrient) ==
    CASE nutrient = "iron" ->
           <<<<"Spinach", "Lentils", "Chickpeas", "Fortified cereals", "Pumpkin seeds">>,
             <<"Lean red meat", "Organ meats", "Shellfish", "Spinach", "Legumes">>>>
      [] nutrient = "vitamin_b12" ->
           <<<<"Fortified cereals", "Fortified nutritional yeast", "Dairy products", "Eggs",
               "Consider B12 supplementation">>,
             <<"Fish", "Meat", "Eggs", "Dairy", "Shellfish">>>>
      [] nutrient = "vitamin_d" ->
           <<<<"Increase sun exposure (15-30 min)", "Fatty fish", "Fortified milk", "Egg yolks",
               "Mushrooms exposed to sunlight">>>>
      [] nutrient = "calcium" ->
           <<<<"Dairy products", "Fortified plant milk", "Leafy greens", "Sesame seeds",
               "Ragi/Finger millet">>>>
      [] nutrient = "magnesium" ->
           <<<<"Nuts (almonds, cashews)", "Seeds", "Whole grains", "Dark chocolate", "Spinach">>>>
      [] nutrient = "zinc" ->
           <<<<"Pumpkin seeds", "Chickpeas", "Cashews", "Fortified cereals", "Yogurt">>,
             <<"Oysters", "Red meat", "Poultry", "Beans", "Nuts">>>>
      [] nutrient = "protein" ->
           <<<<"Dal/Lentils", "Paneer", "Tofu", "Chickpeas", "Greek yogurt">>,
             <<"Chicken", "Fish", "Eggs", "Lean meat", "Dairy">>>>
      [] OTHER -> <<<<>>>>

_get_dietary_tip(nutrient) ==
    CASE nutrient = "iron" ->
           "Pair iron-rich foods with vitamin C (citrus, tomatoes) to enhance absorption"
      [] nutrient = "vitamin_b12" ->
           "B12 is mainly from animal sources; vegetarians should consider fortified foods or supplements"
      [] nutrient = "vitamin_d" ->
           "15-30 minutes of midday sun exposure helps natural vitamin D synthesis"
      [] nutrient = "calcium" ->
           "Spread calcium intake throughout the day; avoid taking with iron supplements"
      [] nutrient = "magnesium" -> "Soaking nuts and seeds can increase magnesium bioavailability"
      [] nutrient = "zinc" ->
           "Animal sources have more bioavailable zinc; vegetarians need 50% more"
      [] nutrient = "protein" ->
           "Combine legumes with grains for complete protein in vegetarian diets"
      [] OTHER -> "Maintain a balanced diet with diverse food sources"

\* the dietary recommendation of one risk record, <<>> for a low risk
DietaryRecommendation(risk, is_veg) ==
    IF risk.risk_level \notin {"high", "critical", "moderate"} THEN <<>>
    ELSE LET foods == food_suggestions(risk.nutrient)
         IN  <<[category |-> "dietary",
                nutrient |-> risk.nutrient,
                priority |-> IF risk.risk_level \in {"high", "critical"} THEN "high"
                             ELSE "moderate",
                foods    |-> IF Len(foods) = 1 \/ is_veg THEN foods[1] ELSE foods[2],
                tip      |-> _get_dietary_tip(risk.nutrient)]>>

RECURSIVE DietaryRecommendations(_, _, _)
DietaryRecommendations(deficiency_risks, is_veg, i) ==
    IF i > Len(deficiency_risks) THEN <<>>
    ELSE DietaryRecommendation(deficiency_risks[i], is_veg)
         \o DietaryRecommendations(deficiency_risks, is_veg, i + 1)

\* [r["nutrient"] for r in deficiency_risks if r["risk_level"] == level]
RECURSIVE NutrientsAt(_, _, _)
NutrientsAt(deficiency_risks, level, i) ==
    IF i > Len(deficiency_risks) THEN <<>>
    ELSE (IF deficiency_risks[i].risk_level = level THEN <<deficiency_risks[i].nutrient>>
          ELSE <<>>)
         \o NutrientsAt(deficiency_risks, level, i + 1)

PrimaryTests(nutrients) == [i \in 1..Len(nutrients) |-> get_recommended_test(nutrients[i])]

_generate_recommendations(self) ==
    LET is_veg == Lower(self.dietary_preference.s) \in {"vegetarian", "vegan", "eggetarian"}
        q      == self.questionnaire
        sun    == Get(q, "sun_exposure_minutes_per_day", NoneV)
        critical_nutrients  == NutrientsAt(self.deficiency_risks, "critical", 1)
        high_risk_nutrients == NutrientsAt(self.deficiency_risks, "high", 1)
    IN  DietaryRecommendations(self.deficiency_risks, is_veg, 1)
        \o (IF Truthy(sun) /\ FLt(_parse_numeric(sun), FInt(20))
            THEN <<[category |-> "lifestyle", nutrient |-> "vitamin_d", priority |-> "high",
                    action   |-> "Increase sun exposure to 20-30 minutes daily (10am-3pm)",
                    tip      |-> "Morning sun is best for vitamin D synthesis without excessive UV damage"]>>
            ELSE <<>>)
        \o (IF \/ Contains("tea", Lower(PyStr(self.morning_habits)))
               \/ Contains("tea", Lower(PyStr(self.evening_habits)))
            THEN <<[category |-> "lifestyle", nutrient |-> "iron", priority |-> "moderate",
                    action   |-> "Avoid tea/coffee with meals - have them 1-2 hours after meals",
                    tip      |-> "Tannins in tea reduce iron absorption by up to 60%"]>>
            ELSE <<>>)
        \o (IF critical_nutrients # <<>>
            THEN <<[category |-> "medical", priority |-> "critical",
                    action   |-> "Schedule blood tests for nutrient assessment",
                    tests    |-> PrimaryTests(critical_nutrients),
                    tip      |-> "Consult a healthcare provider for proper evaluation"]>>
            ELSE IF high_risk_nutrients # <<>>
            THEN <<[category |-> "medical", priority |-> "high",
                    action   |-> "Consider routine blood tests",
                    tests    |-> PrimaryTests(FirstN(high_risk_nutrients, 3)),
                    tip      |-> "Annual nutrient screening recommended"]>>
            ELSE <<>>)

\* text.split()[0] of "<number> <unit>/day"
FirstWord(text) == SubSeq(text, 1, IndexFrom(text, " ", 1) - 1)

\* float(word) if word.replace(".", "").isdigit() else 0, as the emitted number
ChartNumber(word) ==
    LET bare == RemoveChar(word, ".", 1)
    IN  IF bare # "" /\ AllDigits(bare) THEN PyRound(ParseFloat(word).x, 1) ELSE PyInt(0)

_prepare_visualization_data(self) ==
    LET risks == self.deficiency_risks
        located == Truthy(self.location)
        anemia_data == get_regional_anemia_data(self.location.s)
    IN  [nutrient_comparison_chart |->
            [i \in 1..Len(risks) |->
                [nutrient         |-> risks[i].nutrient,
                 who_rda          |-> ChartNumber(FirstWord(risks[i].recommended_intake)),
                 estimated_intake |-> ChartNumber(FirstWord(risks[i].estimated_intake)),
                 coverage_percent |-> risks[i].coverage_percent]],
         risk_radar_chart |->
            [i \in 1..Len(risks) |->
                [nutrient         |-> risks[i].nutrient,
                 risk_probability |-> risks[i].probability_percent,
                 risk_level       |-> risks[i].risk_level]],
         heatmap_region_flag |-> IF located /\ anemia_data.prevalence > 500 THEN "elevated"
                                 ELSE "normal",
         urban_trend_flag    |-> IF located THEN anemia_data.urban_rural ELSE "mixed"]

\* ". ".join(parts)
RECURSIVE Join(_, _)
Join(parts, i) ==
    IF i > Len(parts) THEN ""
    ELSE IF i = Len(parts) THEN parts[i]
    ELSE parts[i] \o ". " \o Join(parts, i + 1)

_generate_demographic_summary(self) ==
    LET bmi_category == self.bmi_analysis.category
        parts == <<FloatStr(self.age) \o "-year-old " \o PyStr(self.gender)>>
                 \o (IF Truthy(self.health_category) THEN <<PyStr(self.health_category)>>
                     ELSE <<>>)
                 \o (IF Truthy(self.dietary_preference)
                     THEN <<PyStr(self.dietary_preference) \o " diet">> ELSE <<>>)
                 \o (IF Truthy(self.location)
                     THEN <<"residing in " \o PyStr(self.location)>> ELSE <<>>)
                 \o (IF bmi_category # ""
                     THEN <<"BMI: " \o NumStr(self.bmi_analysis.bmi_value)
                            \o " (" \o bmi_category \o ")">>
                     ELSE <<>>)
    IN  Join(parts, 1)

\* a result compiled from a BMI analysis that all engines share: the one of the latest
\* call that has computed it
C21_SharedBmi(self) ==
    [bmi_analysis        |-> eng[CHOOSE d \in DOMAIN eng :
                                     /\ eng[d].pc \notin {"idle", "bmi", "raised"}
                                     /\ \A b \in DOMAIN eng :
                                            b > d => eng[b].pc \in {"idle", "bmi", "raised"}
                                ].bmi_analysis,
     demographic_summary |-> _generate_demographic_summary(self),
     deficiency_risks    |-> self.deficiency_risks,
     alerts              |-> self.alerts,
     recommendations     |-> self.recommendations,
     visualization_data  |-> self.visualization_data]

_compile_output(self) ==
    [bmi_analysis        |-> self.bmi_analysis,
     demographic_summary |-> _generate_demographic_summary(self),
     deficiency_risks    |-> self.deficiency_risks,
     alerts              |-> self.alerts,
     recommendations     |-> self.recommendations,
     visualization_data  |-> self.visualization_data]

(***************************************************************************)
(* assess_nutrition_deficiency: one engine per call, analyze() step by     *)
(* step.  Calls share nothing, so the steps of different calls interleave. *)
(***************************************************************************)
Idle == [pc |-> "idle"]

(***************************************************************************)
(* The exceptions of the steps.  No step catches anything, so an exception *)
(* raised in a step leaves analyze() and assess_nutrition_deficiency().    *)
(* Each operator gives the name of the exception its step raises for the   *)
(* engine's fields, "" when the step raises none.                          *)
(***************************************************************************)
\* weight_kg / (height_m ** 2) where the square of a positive height underflows to 0.0
CalculateBmiError(self) ==
    IF /\ FLt(FZero, self.height_cm) /\ FLt(FZero, self.weight_kg)
       /\ Square(FDiv(self.height_cm, FInt(100))) = FZero
    THEN "ZeroDivisionError" ELSE ""

\* value.lower() where value is no str
NoLower(value) == value.t # "str"

\* self.gender.lower(); self.health_category.lower() if self.health_category;
\* dietary_preference.lower() if dietary_preference
MapDemographicRisksError(self) ==
    IF \/ NoLower(self.gender)
       \/ Truthy(self.health_category) /\ NoLower(self.health_category)
       \/ Truthy(self.dietary_preference) /\ NoLower(self.dietary_preference)
    THEN "AttributeError" ELSE ""

\* self.morning_habits.lower() if self.morning_habits, and so for the other periods
AnalyzeDietaryPatternsError(self) ==
    IF \E habits \in {self.morning_habits, self.afternoon_habits, self.evening_habits} :
           Truthy(habits) /\ NoLower(habits)
    THEN "AttributeError" ELSE ""

\* location in REGIONAL_ANEMIA_PREVALENCE hashes the location; location.lower()
IntegrateGeographicRisksError(self) ==
    IF ~Truthy(self.location) THEN ""
    ELSE IF self.location.t \in {"list", "dict"} THEN "TypeError"
    ELSE IF NoLower(self.location) THEN "AttributeError"
    ELSE ""

\* q.get("fatigue", "") where q is no mapping
AnalyzeQuestionnaireError(self) == IF IsValue(self.questionnaire) THEN "AttributeError" ELSE ""

\* self.dietary_preference.lower() for a nutrient whose demographic contribution is
\* above 15
CalculateDeficiencyRisksError(self, demographic_risks) ==
    IF /\ NoLower(self.dietary_preference)
       /\ \E n \in NutrientSet : FLt(FInt(15), demographic_risks[n])
    THEN "AttributeError" ELSE ""

\* is_veg = self.dietary_preference.lower() in [...]
GenerateRecommendationsError(self) ==
    IF NoLower(self.dietary_preference) THEN "AttributeError" ELSE ""

\* the call ends with the exception; what the steps before have set stays as it is
Raise(self, error) == [self EXCEPT !.pc = "raised", !.error = error]

\* the locals of analyze() before its first step
Frame == [pc |-> "bmi", demographic_risks |-> <<>>, dietary_estimates |-> <<>>,
          geographic_risks |-> <<>>, symptom_risks |-> <<>>, output |-> <<>>,
          error |-> ""]

\* engine = NutritionDeficiencyEngine(user_data); the calls are numbered in the order
\* in which they are made
Construct(c) ==
    /\ eng[c].pc = "idle"
    /\ \A b \in DOMAIN eng : b < c => eng[b].pc # "idle"
    /\ \E user_data \in requests : eng' = [eng EXCEPT ![c] = EngineInit(user_data) @@ Frame]
    /\ UNCHANGED <<requests, log>>

\* Step 1: self.bmi_analysis = self._calculate_bmi()
CalculateBmi(c) ==
    /\ eng[c].pc = "bmi"
    /\ eng' = [eng EXCEPT ![c] =
                 IF CalculateBmiError(eng[c]) # ""
                 THEN Raise(eng[c], CalculateBmiError(eng[c]))
                 ELSE [@ EXCEPT !.bmi_analysis =
                                    calculate_bmi(eng[c].weight_kg, eng[c].height_cm),
                                !.pc = "demographic"]]
    /\ UNCHANGED <<requests, log>>

\* Step 2: demographic_risks = self._map_demographic_risks()
MapDemographicRisks(c) ==
    /\ eng[c].pc = "demographic"
    /\ eng' = [eng EXCEPT ![c] =
                 IF MapDemographicRisksError(eng[c]) # ""
                 THEN Raise(eng[c], MapDemographicRisksError(eng[c]))
                 ELSE [@ EXCEPT !.demographic_risks = _map_demographic_risks(eng[c]),
                                !.pc = "dietary"]]
    /\ UNCHANGED <<requests, log>>

\* Step 3: dietary_estimates = self._analyze_dietary_patterns()
AnalyzeDietaryPatterns(c) ==
    /\ eng[c].pc = "dietary"
    /\ eng' = [eng EXCEPT ![c] =
                 IF AnalyzeDietaryPatternsError(eng[c]) # ""
                 THEN Raise(eng[c], AnalyzeDietaryPatternsError(eng[c]))
                 ELSE [@ EXCEPT !.dietary_estimates = _analyze_dietary_patterns(eng[c]),
                                !.pc = "geographic"]]
    /\ UNCHANGED <<requests, log>>

\* Step 4: geographic_risks = self._integrate_geographic_risks()
IntegrateGeographicRisks(c) ==
    /\ eng[c].pc = "geographic"
    /\ eng' = [eng EXCEPT ![c] =
                 IF IntegrateGeographicRisksError(eng[c]) # ""
                 THEN Raise(eng[c], IntegrateGeographicRisksError(eng[c]))
                 ELSE [@ EXCEPT !.geographic_risks = _integrate_geographic_risks(eng[c]),
                                !.pc = "questionnaire"]]
    /\ UNCHANGED <<requests, log>>

\* Step 5: symptom_risks = self._analyze_questionnaire()
AnalyzeQuestionnaire(c) ==
    /\ eng[c].pc = "questionnaire"
    /\ eng' = [eng EXCEPT ![c] =
                 IF AnalyzeQuestionnaireError(eng[c]) # ""
                 THEN Raise(eng[c], AnalyzeQuestionnaireError(eng[c]))
                 ELSE [@ EXCEPT !.symptom_risks = _analyze_questionnaire(eng[c]),
                                !.pc = "risks"]]
    /\ UNCHANGED <<requests, log>>

\* Step 6: self.deficiency_risks = self._calculate_deficiency_risks(...)
CalculateDeficiencyRisks(c) ==
    /\ eng[c].pc = "risks"
    /\ eng' = [eng EXCEPT ![c] =
                 IF CalculateDeficiencyRisksError(eng[c], eng[c].demographic_risks) # ""
                 THEN Raise(eng[c],
                            CalculateDeficiencyRisksError(eng[c], eng[c].demographic_risks))
                 ELSE [@ EXCEPT !.deficiency_risks =
                               _calculate_deficiency_risks(eng[c], eng[c].demographic_risks,
                                   eng[c].dietary_estimates, eng[c].geographic_risks,
                                   eng[c].symptom_risks),
                                !.pc = "alerts"]]
    /\ UNCHANGED <<requests, log>>

\* Step 7: self.alerts = self._generate_alerts()
GenerateAlerts(c) ==
    /\ eng[c].pc = "alerts"
    /\ eng' = [eng EXCEPT ![c] =
                 [@ EXCEPT !.alerts = _generate_alerts(eng[c]), !.pc = "recommendations"]]
    /\ UNCHANGED <<requests, log>>

\* Step 8: self.recommendations = self._generate_recommendations()
GenerateRecommendations(c) ==
    /\ eng[c].pc = "recommendations"
    /\ eng' = [eng EXCEPT ![c] =
                 IF GenerateRecommendationsError(eng[c]) # ""
                 THEN Raise(eng[c], GenerateRecommendationsError(eng[c]))
                 ELSE [@ EXCEPT !.recommendations = _generate_recommendations(eng[c]),
                                !.pc = "visualization"]]
    /\ UNCHANGED <<requests, log>>

\* Step 9: self.visualization_data = self._prepare_visualization_data()
PrepareVisualizationData(c) ==
    /\ eng[c].pc = "visualization"
    /\ eng' = [eng EXCEPT ![c] =
                 [@ EXCEPT !.visualization_data = _prepare_visualization_data(eng[c]),
                           !.pc = "compile"]]
    /\ UNCHANGED <<requests, log>>

\* return self._compile_output(): the call returns its result
Return(c, output) ==
    /\ eng' = [eng EXCEPT ![c] = [@ EXCEPT !.output = output, !.pc = "done"]]
    /\ log' = Append(log, [user_data |-> eng[c].user_data, output |-> output])

CompileOutput(c) ==
    /\ eng[c].pc = "compile"
    /\ Return(c, _compile_output(eng[c]))
    /\ UNCHANGED requests

Next ==
    \/ \E c \in DOMAIN eng : Construct(c)
    \/ \E c \in DOMAIN eng : CalculateBmi(c)
    \/ \E c \in DOMAIN eng : MapDemographicRisks(c)
    \/ \E c \in DOMAIN eng : AnalyzeDietaryPatterns(c)
    \/ \E c \in DOMAIN eng : IntegrateGeographicRisks(c)
    \/ \E c \in DOMAIN eng : AnalyzeQuestionnaire(c)
    \/ \E c \in DOMAIN eng : CalculateDeficiencyRisks(c)
    \/ \E c \in DOMAIN eng : GenerateAlerts(c)
    \/ \E c \in DOMAIN eng : GenerateRecommendations(c)
    \/ \E c \in DOMAIN eng : PrepareVisualizationData(c)
    \/ \E c \in DOMAIN eng : CompileOutput(c)

(***************************************************************************)
(* The requests the model submits.                                         *)
(***************************************************************************)
\* a man of 30, 175 cm and 70 kg, who differs by where he lives, what he eats in the
\* morning and what he answers
Adult(location, morning_habits, answers) ==
    UserData(<<<<"age", NumV(30, 1)>>, <<"gender", StrV("male")>>,
               <<"height_cm", NumV(175, 1)>>, <<"weight_kg", NumV(70, 1)>>,
               <<"health_category", StrV("adult")>>,
               <<"dietary_preference", StrV("non_vegetarian")>>,
               <<"location", StrV(location)>>, <<"morning_habits", StrV(morning_habits)>>>>,
             answers)

\* the same man with other measurements; location and habits are left out
Measured(height_cm, weight_kg) ==
    UserData(<<<<"age", NumV(30, 1)>>, <<"gender", StrV("male")>>,
               <<"height_cm", height_cm>>, <<"weight_kg", weight_kg>>,
               <<"health_category", StrV("adult")>>,
               <<"dietary_preference", StrV("pescatarian")>>>>,
             <<>>)

\* blank, exact keys, keys in other case, keys inside a longer text, parts of keys, and
\* places no table knows
Locations == {"", " ", "Kerala", "kerala", "West Bengal", "Bengal", "New Delhi, India",
              "Pradesh", "a", "Atlantis"}

LocationRequests == {Adult(location, "milk", <<>>) : location \in Locations}

WellFed == <<<<"sun_exposure_minutes_per_day", NumV(60, 1)>>,
             <<"dairy_servings_per_day", NumV(3, 1)>>,
             <<"green_leafy_frequency_per_week", NumV(7, 1)>>>>

Tired == <<<<"fatigue", StrV("yes")>>>>

\* sums that land on and next to the thresholds 30, 60 and 80 and the ends 0 and 100
ThresholdRequests ==
    {Adult("Delhi", "dal, sedentary", <<>>),
     Adult("Kerala", "skip breakfast, buttermilk", <<>>),
     Adult("West Bengal", "skip breakfast, buttermilk", <<>>),
     Adult("", "", <<>>),
     Adult("", "fish, chicken, curd", Tired),
     Adult("Kerala", "milk", WellFed)}

\* habits of all three periods that drive the scores past both caps
HabitRequests ==
    {UserData(<<<<"age", NumV(45, 1)>>, <<"gender", StrV("Female")>>,
                <<"height_cm", StrV("165")>>, <<"weight_kg", StrV("62.5")>>,
                <<"dietary_preference", StrV("eggetarian")>>,
                <<"location", StrV("Tamil Nadu")>>,
                <<"morning_habits", StrV("Milk, eggs, oats, nuts")>>,
                <<"afternoon_habits", StrV("dal, paneer, curd, spinach, fish")>>,
                <<"evening_habits", StrV("milk, eggs, chicken, sprouts")>>>>, WellFed),
     UserData(<<<<"age", NumV(70, 1)>>, <<"gender", StrV("male")>>,
                <<"height_cm", NumV(170, 1)>>, <<"weight_kg", NumV(60, 1)>>,
                <<"health_category", StrV("senior")>>,
                <<"dietary_preference", StrV("vegetarian")>>,
                <<"location", StrV("Bihar")>>,
                <<"morning_habits", StrV("skip breakfast, tea, coffee, smoking")>>,
                <<"afternoon_habits", StrV("fast food, tea, stress")>>,
                <<"evening_habits", StrV("alcohol, junk, coffee, sedentary")>>>>, Tired)}

\* measurements on and next to the boundaries 18.5, 25 and 30, and measurements that
\* are not positive
Measurements ==
    {<<NumV(175, 1), NumV(70, 1)>>, <<NumV(175, 1), NumV(45, 1)>>,
     <<NumV(150, 1), NumV(100, 1)>>, <<NumV(200, 1), NumV(74, 1)>>,
     <<NumV(200, 1), NumV(100, 1)>>, <<NumV(200, 1), NumV(120, 1)>>,
     <<NumV(142, 1), NumV(373, 10)>>, <<NumV(160, 1), NumV(64, 1)>>,
     <<NumV(144, 1), NumV(622, 10)>>,
     <<NumV(0, 1), NumV(70, 1)>>, <<NumV(175, 1), NumV(0, 1)>>, <<NumV(-5, 1), NumV(70, 1)>>,
     <<StrV("tall"), NumV(70, 1)>>}

MeasurementRequests == {Measured(m[1], m[2]) : m \in Measurements}

\* a vegan woman with every symptom, a pregnant woman, a girl of 2 with defaults, and
\* an underweight woman in Kerala whose sums leave [0, 100] on both sides and whose
\* scores leave [0.1, 1.0] on both sides
PersonRequests ==
    {UserData(<<<<"age", NumV(30, 1)>>, <<"gender", StrV("female")>>,
                <<"height_cm", NumV(175, 1)>>, <<"weight_kg", NumV(45, 1)>>,
                <<"health_category", StrV("adult")>>,
                <<"dietary_preference", StrV("vegetarian")>>,
                <<"location", StrV("Kerala")>>,
                <<"morning_habits", StrV("tea, coffee, milk, paneer")>>,
                <<"afternoon_habits", StrV("tea, coffee, milk, paneer")>>,
                <<"evening_habits", StrV("tea, coffee, milk, paneer")>>>>,
              <<<<"sun_exposure_minutes_per_day", NumV(60, 1)>>,
                <<"green_leafy_frequency_per_week", NumV(1, 1)>>>>),
     UserData(<<<<"age", NumV(28, 1)>>, <<"gender", StrV("female")>>,
                <<"height_cm", NumV(158, 1)>>, <<"weight_kg", NumV(45, 1)>>,
                <<"health_category", StrV("adult")>>,
                <<"dietary_preference", StrV("vegan")>>,
                <<"location", StrV("West Bengal")>>,
                <<"morning_habits", StrV("tea, skip breakfast")>>,
                <<"afternoon_habits", StrV("rice, dal")>>,
                <<"evening_habits", StrV("tea, fast food")>>>>,
              <<<<"fatigue", StrV("yes")>>, <<"hair_fall", StrV("severe")>>,
                <<"muscle_cramps", StrV("sometimes")>>,
                <<"sun_exposure_minutes_per_day", NumV(5, 1)>>,
                <<"dairy_servings_per_day", NumV(0, 1)>>,
                <<"green_leafy_frequency_per_week", NumV(1, 1)>>,
                <<"water_source", StrV("borewell")>>>>),
     UserData(<<<<"age", NumV(31, 1)>>, <<"gender", StrV("female")>>,
                <<"height_cm", NumV(160, 1)>>, <<"weight_kg", NumV(80, 1)>>,
                <<"health_category", StrV("pregnant")>>,
                <<"dietary_preference", StrV("vegetarian")>>,
                <<"location", StrV("Rajasthan")>>,
                <<"evening_habits", StrV("green tea, fruit")>>>>,
              <<<<"muscle_cramps", StrV("always")>>,
                <<"sun_exposure_minutes_per_day", StrV("15")>>,
                <<"water_source", StrV("Ground water")>>>>),
     UserData(<<<<"age", NumV(2, 1)>>>>, <<<<"hair_fall", StrV("occasional")>>>>)}

Requests == LocationRequests \cup ThresholdRequests \cup HabitRequests
            \cup MeasurementRequests \cup PersonRequests

Init ==
    /\ requests = Requests
    /\ eng = [c \in {1} |-> Idle]
    /\ log = <<>>

Spec == Init /\ [][Next]_vars

\* concurrent and repeated calls: every call draws from a few requests
MaxCalls == 2
CallRequests ==
    {Adult("West Bengal", "skip breakfast, buttermilk", <<>>),
     Measured(NumV(0, 1), NumV(70, 1))}

InitCalls ==
    /\ requests = CallRequests
    /\ eng = [c \in 1..MaxCalls |-> Idle]
    /\ log = <<>>

SpecCalls == InitCalls /\ [][Next]_vars

\* the documented example: a woman of 30, 160 cm and 45 kg, vegan, in West Bengal, with
\* empty habits and no answers
Example ==
    UserData(<<<<"age", NumV(30, 1)>>, <<"gender", StrV("female")>>,
               <<"height_cm", NumV(160, 1)>>, <<"weight_kg", NumV(45, 1)>>,
               <<"health_category", StrV("adult")>>,
               <<"dietary_preference", StrV("vegan")>>,
               <<"location", StrV("West Bengal")>>,
               <<"morning_habits", StrV("")>>, <<"afternoon_habits", StrV("")>>,
               <<"evening_habits", StrV("")>>>>,
             <<>>)

\* an adult of 165 cm and 60 kg in Kerala who differs by age, gender and diet
Person(age, gender, dietary_preference) ==
    UserData(<<<<"age", age>>, <<"gender", StrV(gender)>>,
               <<"height_cm", NumV(165, 1)>>, <<"weight_kg", NumV(60, 1)>>,
               <<"health_category", StrV("adult")>>,
               <<"dietary_preference", dietary_preference>>,
               <<"location", StrV("Kerala")>>>>,
             <<>>)

\* the diet keys in several cases, texts around and inside a key, texts no key matches,
\* the empty text and None
Diets == {StrV("non_vegetarian"), StrV("Non_Vegetarian"), StrV("NON_VEGETARIAN"),
          StrV("non-veg"), StrV("keto"), StrV("omnivore"), StrV(""), NoneV,
          StrV("vegan"), StrV("Vegetarian"), StrV("veg"), StrV("pescatarian"),
          StrV("strict eggetarian")}

DietRequests == {Person(NumV(30, 1), "male", diet) : diet \in Diets}

\* ages below, on, between, and above the ends 14 and 50
Ages == {NumV(10, 1), NumV(13, 1), NumV(139, 10), NumV(14, 1), NumV(30, 1), NumV(50, 1),
         NumV(501, 10), NumV(51, 1), NumV(65, 1)}

Genders == {"female", "Female", "male", "other"}

GenderRequests ==
    {Person(age, "female", StrV("keto")) : age \in Ages}
    \cup {Person(NumV(30, 1), gender, StrV("keto")) : gender \in Genders}
    \cup {Person(age, "male", StrV("keto")) : age \in {NumV(13, 1), NumV(51, 1)}}

DemographicRequests == {Example} \cup DietRequests \cup GenderRequests

InitDemographic ==
    /\ requests = DemographicRequests
    /\ eng = [c \in {1} |-> Idle]
    /\ log = <<>>

SpecDemographic == InitDemographic /\ [][Next]_vars

\* a woman of 30 with every field given; the requests below change one field of hers
Complete ==
    [age |-> NumV(30, 1), gender |-> StrV("female"), height_cm |-> NumV(165, 1),
     weight_kg |-> NumV(60, 1), health_category |-> StrV("adult"),
     dietary_preference |-> StrV("vegan"), location |-> StrV("Kerala"),
     morning_habits |-> StrV("milk"), afternoon_habits |-> StrV("rice, dal"),
     evening_habits |-> StrV("tea"), questionnaire_responses |-> Mapping(QKeys, Tired)]

With(key, value) == [Complete EXCEPT ![key] = value]

TextKeys == {"gender", "health_category", "dietary_preference", "location", "morning_habits",
             "afternoon_habits", "evening_habits"}
NumericKeys == {"age", "height_cm", "weight_kg"}
OptionalKeys == TextKeys \ {"gender"}

\* a value of each type in each field, a text that is no number in each numeric field,
\* and a questionnaire that is no mapping
MalformedRequests ==
    {With(key, value) : key \in TextKeys \cup NumericKeys,
                        value \in {NumV(5, 1), NumV(0, 1), NoneV, ListV, DictV}}
    \cup {With(key, StrV("abc")) : key \in NumericKeys}
    \cup {With("questionnaire_responses", value) :
              value \in {NoneV, NumV(5, 1), StrV("yes"), ListV}}

\* the optional fields left out or left blank, one at a time and all at once, a location
\* and a diet no table knows, and a questionnaire left out or empty
NoOptional(value) ==
    [key \in DOMAIN Complete |->
        IF key \in OptionalKeys THEN value
        ELSE IF key = "questionnaire_responses"
        THEN (IF value = Absent THEN Absent ELSE Mapping(QKeys, <<>>))
        ELSE Complete[key]]

GapRequests ==
    {With(key, value) : key \in OptionalKeys, value \in {Absent, StrV("")}}
    \cup {NoOptional(Absent), NoOptional(StrV(""))}
    \cup {With("location", StrV("Atlantis")), With("dietary_preference", StrV("keto")),
          With("questionnaire_responses", Absent),
          With("questionnaire_responses", Mapping(QKeys, <<>>))}

InitInputs ==
    /\ requests = MalformedRequests \cup GapRequests
    /\ eng = [c \in {1} |-> Idle]
    /\ log = <<>>

SpecInputs == InitInputs /\ [][Next]_vars

\* questionnaire answers: symptoms denied, reported strongly, reported weakly or left
\* out, and the minutes of sun as numbers and as text on both sides of 10 and 20
SymptomAnswers ==
    {<<<<"fatigue", StrV("no")>>, <<"hair_fall", StrV("yes")>>>>,
     <<<<"fatigue", StrV("yes")>>, <<"hair_fall", StrV("never")>>>>,
     <<<<"fatigue", StrV("Sometimes")>>, <<"hair_fall", StrV("occasional")>>>>,
     <<<<"fatigue", StrV("yes")>>, <<"hair_fall", StrV("yes")>>,
       <<"muscle_cramps", StrV("yes")>>>>,
     <<<<"fatigue", StrV("no")>>, <<"hair_fall", StrV("no")>>,
       <<"muscle_cramps", StrV("no")>>>>,
     <<<<"muscle_cramps", StrV("no")>>, <<"dairy_servings_per_day", NumV(0, 1)>>>>,
     <<<<"muscle_cramps", StrV("severe")>>, <<"fatigue", StrV("rarely")>>>>}

SunAnswers ==
    {<<<<"sun_exposure_minutes_per_day", minutes>>>> :
        minutes \in {NumV(0, 1), StrV("0"), NumV(5, 1), StrV("15"), NumV(199, 10),
                     NumV(20, 1), StrV("20"), NumV(45, 1), StrV("")}}

AnswerRequests == {Adult("", "", answers) : answers \in SymptomAnswers \cup SunAnswers \cup {<<>>}}

InitAnswers ==
    /\ requests = AnswerRequests
    /\ eng = [c \in {1} |-> Idle]
    /\ log = <<>>

SpecAnswers == InitAnswers /\ [][Next]_vars

\* a person of 165 cm and 60 kg who differs by gender, age and health category
Staged(gender, age, health_category) ==
    UserData(<<<<"age", NumV(age, 1)>>, <<"gender", StrV(gender)>>,
               <<"height_cm", NumV(165, 1)>>, <<"weight_kg", NumV(60, 1)>>,
               <<"health_category", health_category>>,
               <<"dietary_preference", StrV("non_vegetarian")>>>>,
             <<>>)

\* the two life-stage keys, in other case, inside free text, and texts without them
HealthCategories ==
    {StrV("pregnant"), StrV("Pregnant"), StrV("lactating"), StrV("LACTATING"),
     StrV("pregnant (2nd trimester)"), StrV("lactating mother"), StrV("not pregnant"),
     StrV("adult"), StrV(""), Absent}

HealthCategoryRequests ==
    {Staged("female", 30, health_category) : health_category \in HealthCategories}
    \cup {Staged("Female", 16, StrV("pregnant")), Staged("female", 65, StrV("lactating")),
          Staged("male", 30, StrV("pregnant")), Staged("other", 30, StrV("pregnant"))}

InitHealthCategory ==
    /\ requests = HealthCategoryRequests
    /\ eng = [c \in {1} |-> Idle]
    /\ log = <<>>

SpecHealthCategory == InitHealthCategory /\ [][Next]_vars

\* a lactating woman of 30, 160 cm and 45 kg whose calcium sum is 60.0 and whose zinc sum
\* is 60.00000000000001; diet, location and answers are left out
Tied ==
    UserData(<<<<"age", NumV(30, 1)>>, <<"gender", StrV("female")>>,
               <<"height_cm", NumV(160, 1)>>, <<"weight_kg", NumV(45, 1)>>,
               <<"health_category", StrV("lactating")>>,
               <<"morning_habits", StrV("oats, khichdi, outside food")>>>>,
             <<>>)

\* requests whose records tie: at 100, at 0, and on a threshold
TieRequests == {Tied} \cup ThresholdRequests \cup HabitRequests \cup PersonRequests

InitTies ==
    /\ requests = TieRequests
    /\ eng = [c \in {1} |-> Idle]
    /\ log = <<>>

SpecTies == InitTies /\ [][Next]_vars

(***************************************************************************)
(* serializers.py and views.py: POST /nutrition/assessment/.  The request  *)
(* body is a mapping like the engine's input; a call of the view validates *)
(* it, runs the engine on the validated data and answers.                  *)
(***************************************************************************)
\* CharField.run_validation: the message of the field's own checks, "" when it has none
CharFieldError(data, required, allow_blank) ==
    IF data.t = "absent" THEN (IF required THEN "This field is required." ELSE "")
    ELSE IF data.t = "none" THEN "This field may not be null."
    ELSE IF data.t \in {"list", "dict"} THEN "Not a valid string."
    ELSE IF Strip(PyStr(data)) = "" /\ ~allow_blank THEN "This field may not be blank."
    ELSE ""

\* CharField.to_internal_value: str(data).strip(); the default for a field left out
CharFieldValue(data, default) ==
    IF data.t = "absent" THEN StrV(default) ELSE StrV(Strip(PyStr(data)))

\* validate_age, validate_height_cm, validate_weight_kg: float(value.replace(",",
\* "").strip()), then number <= 0 or number > limit
ValidateNumber(value, limit, name, unit) ==
    IF ~ParseFloat(Strip(RemoveChar(value.s, ",", 1))).ok
    THEN name \o " must be a valid number"
    ELSE IF \/ FLe(ParseFloat(Strip(RemoveChar(value.s, ",", 1))).x, FZero)
            \/ FLt(FInt(limit), ParseFloat(Strip(RemoveChar(value.s, ",", 1))).x)
    THEN name \o " must be between 1 and " \o IntStr(limit) \o unit
    ELSE ""

validate_age(value) == ValidateNumber(value, 120, "Age", "")

validate_height_cm(value) == ValidateNumber(value, 300, "Height", " cm")

validate_weight_kg(value) == ValidateNumber(value, 500, "Weight", " kg")

validate_gender(value) ==
    IF Lower(value.s) \notin {"male", "female", "other"}
    THEN "Gender must be male, female, or other" ELSE ""

\* the validate_<field> method of a field, run on the value the field has accepted
FieldValidator(key, value) ==
    CASE key = "age"       -> validate_age(value)
      [] key = "gender"    -> validate_gender(value)
      [] key = "height_cm" -> validate_height_cm(value)
      [] key = "weight_kg" -> validate_weight_kg(value)
      [] OTHER             -> ""

RequiredKeys == {"age", "gender", "height_cm", "weight_kg"}

\* the default= of the optional fields of NutritionAssessmentInputSerializer
InputDefault(key) ==
    CASE key = "health_category"    -> "adult"
      [] key = "dietary_preference" -> "vegetarian"
      [] OTHER                      -> ""

\* the default= of the fields of QuestionnaireResponsesSerializer
AnswerDefault(key) ==
    CASE key = "sun_exposure_minutes_per_day"   -> "30"
      [] key = "dairy_servings_per_day"         -> "1"
      [] key = "green_leafy_frequency_per_week" -> "3"
      [] OTHER                                  -> ""

\* the error of one field of the input serializer: the field's own, else its validator's
InputFieldError(data, key) ==
    IF CharFieldError(data[key], key \in RequiredKeys, key \notin RequiredKeys) # ""
    THEN CharFieldError(data[key], key \in RequiredKeys, key \notin RequiredKeys)
    ELSE FieldValidator(key, CharFieldValue(data[key], InputDefault(key)))

\* the errors of the nested questionnaire serializer: none when the field is left out, a
\* message when it is null or no mapping, else the messages of its own fields
AnswerErrors(answers) ==
    [key \in {k \in QKeys : CharFieldError(answers[k], FALSE, TRUE) # ""} |->
        <<CharFieldError(answers[key], FALSE, TRUE)>>]

\* type(data).__name__
TypeName(data) ==
    CASE data.t = "str"  -> "str"
      [] data.t = "list" -> "list"
      [] data.t = "dict" -> "dict"
      [] OTHER           -> IF data.d = 1 THEN "int" ELSE "float"

QuestionnaireErrors(data) ==
    IF ~IsValue(data) THEN AnswerErrors(data)
    ELSE IF data.t = "absent" THEN <<>>
    ELSE IF data.t = "none" THEN <<"This field may not be null.">>
    ELSE [non_field_errors |->
             <<"Invalid data. Expected a dictionary, but got " \o TypeName(data) \o ".">>]

\* serializer.errors: the offending fields, each with the list of its messages
SerializerErrors(data) ==
    [key \in {k \in UserKeys : InputFieldError(data, k) # ""} |-> <<InputFieldError(data, key)>>]
    @@ (IF QuestionnaireErrors(data.questionnaire_responses) = <<>> THEN <<>>
        ELSE [key \in {"questionnaire_responses"} |->
                 QuestionnaireErrors(data.questionnaire_responses)])

\* serializer.is_valid()
is_valid(data) == DOMAIN SerializerErrors(data) = {}

\* serializer.validated_data: every field a string, the optional fields that were left
\* out at their defaults, the questionnaire left out when the request has none
validated_data(data) ==
    [key \in UserKeys |-> CharFieldValue(data[key], InputDefault(key))]
    @@ [questionnaire_responses |->
           IF IsValue(data.questionnaire_responses) THEN Absent
           ELSE [key \in QKeys |-> CharFieldValue(data.questionnaire_responses[key],
                                                  AnswerDefault(key))]]

\* Response({"error": "Invalid input data", "details": serializer.errors}, status=400)
Rejection(data) ==
    [status |-> 400, data |-> [error |-> "Invalid input data", details |-> SerializerErrors(data)]]

\* Response(output_serializer.data) or Response(assessment_result): either way the
\* sections of the result, with the default status
Success(assessment_result) == [status |-> 200, data |-> assessment_result]

\* str(e) for the exceptions of a call on validated data
ExceptionStr(error) ==
    IF error = "ZeroDivisionError" THEN "float division by zero" ELSE error

\* Response({"error": "Assessment failed", "details": str(e)}, status=500)
Failure(error) ==
    [status |-> 500, data |-> [error |-> "Assessment failed", details |-> ExceptionStr(error)]]

\* post() up to the call of the engine: an invalid request is answered at once, a valid
\* one constructs the engine on the validated data
Post(c) ==
    /\ eng[c].pc = "idle"
    /\ \E data \in requests :
         eng' = [eng EXCEPT ![c] =
                   IF is_valid(data)
                   THEN EngineInit(validated_data(data)) @@ Frame @@ [request |-> data]
                   ELSE [pc |-> "rejected", request |-> data, response |-> Rejection(data)]]
    /\ UNCHANGED <<requests, log>>

\* a handler that answers a failure with what the steps before it have left
C18_RespondPartial(c) ==
    /\ eng[c].pc \in {"done", "raised"}
    /\ eng' = [eng EXCEPT ![c] =
                 IF eng[c].pc = "done"
                 THEN [pc |-> "responded", request |-> eng[c].request,
                       response |-> Success(eng[c].output)]
                 ELSE [pc |-> "failed", request |-> eng[c].request,
                       response |-> [status |-> 500,
                                     data |-> [error |-> "Assessment failed",
                                               details |-> ExceptionStr(eng[c].error),
                                               bmi_analysis |-> eng[c].bmi_analysis]]]]
    /\ UNCHANGED <<requests, log>>

\* post() after the engine: the result when analyze() has returned, the failure when it
\* has raised
Respond(c) ==
    /\ eng[c].pc \in {"done", "raised"}
    /\ eng' = [eng EXCEPT ![c] =
                 IF eng[c].pc = "done"
                 THEN [pc |-> "responded", request |-> eng[c].request,
                       response |-> Success(eng[c].output)]
                 ELSE [pc |-> "failed", request |-> eng[c].request,
                       response |-> Failure(eng[c].error)]]
    /\ UNCHANGED <<requests, log>>

NextPost ==
    \/ \E c \in DOMAIN eng : Post(c)
    \/ \E c \in DOMAIN eng : CalculateBmi(c)
    \/ \E c \in DOMAIN eng : MapDemographicRisks(c)
    \/ \E c \in DOMAIN eng : AnalyzeDietaryPatterns(c)
    \/ \E c \in DOMAIN eng : IntegrateGeographicRisks(c)
    \/ \E c \in DOMAIN eng : AnalyzeQuestionnaire(c)
    \/ \E c \in DOMAIN eng : CalculateDeficiencyRisks(c)
    \/ \E c \in DOMAIN eng : GenerateAlerts(c)
    \/ \E c \in DOMAIN eng : GenerateRecommendations(c)
    \/ \E c \in DOMAIN eng : PrepareVisualizationData(c)
    \/ \E c \in DOMAIN eng : CompileOutput(c)
    \/ \E c \in DOMAIN eng : Respond(c)

\* the bodies posted: the complete request with one required field changed to a value at,
\* inside and outside each documented limit, to texts that are no numbers, to other
\* types, or left out; two fields wrong at once; a questionnaire that is no mapping
Posted(key, values) == {With(key, StrV(v)) : v \in values}

PostRequests ==
    Posted("age", {"1", "120", "0.5", "0", "-5", "121", "abc", "", "1,0"})
    \cup Posted("height_cm", {"300", "0", "301", "tall", "1e-170"})
    \cup Posted("weight_kg", {"500", "0.5", "0", "501", "heavy"})
    \cup Posted("gender", {"Female", " male ", "other", "unknown", ""})
    \cup {With(key, value) : key \in RequiredKeys, value \in {Absent, NoneV, ListV}}
    \cup {With("age", NumV(30, 1)), With("location", ListV), With("location", Absent),
          [With("age", StrV("0")) EXCEPT !["gender"] = StrV("x")],
          With("questionnaire_responses", Absent),
          With("questionnaire_responses", NoneV),
          With("questionnaire_responses", StrV("yes")),
          With("questionnaire_responses", Mapping(QKeys, <<<<"fatigue", ListV>>>>))}

InitPost ==
    /\ requests = PostRequests
    /\ eng = [c \in {1} |-> Idle]
    /\ log = <<>>

SpecPost == InitPost /\ [][NextPost]_vars

(***************************************************************************)
(* views.py: the GET endpoints that consume the collaborators.  What the   *)
(* food log, the profile and the regional tables hold is part of the       *)
(* request; what a collaborator does with a call is chosen with the call.  *)
(***************************************************************************)
RDA_MAP(life_stage) ==
    CASE life_stage = "pregnant"  -> [iron |-> 27, calcium |-> 1000, protein |-> 71]
      [] life_stage = "lactating" -> [iron |-> 9, calcium |-> 1300, protein |-> 71]
      [] OTHER                    -> [iron |-> 18, calcium |-> 1000, protein |-> 46]

\* LOW below 0.8 of the allowance, HIGH above 1.2 of it
IntakeStatus(total, rda) ==
    IF FLt(FInt(total), FMul(Dec(8, 10), FInt(rda))) THEN "LOW"
    ELSE IF FLt(FMul(Dec(12, 10), FInt(rda)), FInt(total)) THEN "HIGH"
    ELSE "ADEQUATE"

\* a call of the language model: its text, or an exception
LlmOutcomes == {[ok |-> TRUE, content |-> "Eat more greens."], [ok |-> FALSE, content |-> ""]}

\* try: ai_explanation = <call> except Exception: ai_explanation = "AI explanation
\* unavailable."
Explanation(outcome) == IF outcome.ok THEN outcome.content ELSE "AI explanation unavailable."

\* explain_exercise(life_stage=, risk_level=, exercise_plan=) for a function of four
\* required parameters: TypeError before the language model is called
ExplainExerciseCall == [ok |-> FALSE, content |-> ""]

\* predict_risk(features): a label of LABELS with its confidence in hundredths, or an
\* exception (the model object is missing or predict_proba fails)
PredictOutcomes ==
    {[ok |-> TRUE, risk_level |-> l, confidence |-> k] : l \in {"LOW", "MEDIUM", "HIGH"},
                                                        k \in {40, 95}}
    \cup {[ok |-> FALSE, risk_level |-> "", confidence |-> 0]}

\* exercise_rules.get_exercise_plan; the durations are written with a plain hyphen
get_exercise_plan(life_stage, risk_level) ==
    IF life_stage = "pregnant"
    THEN (IF risk_level = "HIGH"
          THEN [type |-> "Light activity", examples |-> <<"Slow walking", "Prenatal stretching">>,
                duration |-> "10-15 minutes", intensity |-> "Low",
                notes |-> "Focus on gentle movement and rest"]
          ELSE IF risk_level = "MEDIUM"
          THEN [type |-> "Moderate activity", examples |-> <<"Walking", "Prenatal yoga">>,
                duration |-> "20-30 minutes", intensity |-> "Moderate",
                notes |-> "Avoid overexertion"]
          ELSE [type |-> "Regular prenatal exercise", examples |-> <<"Walking", "Light yoga">>,
                duration |-> "30 minutes", intensity |-> "Moderate",
                notes |-> "Maintain consistency"])
    ELSE IF risk_level = "HIGH"
    THEN [type |-> "Low-impact activity", examples |-> <<"Walking", "Stretching">>,
          duration |-> "15-20 minutes", intensity |-> "Low", notes |-> "Focus on recovery"]
    ELSE IF risk_level = "MEDIUM"
    THEN [type |-> "Balanced activity", examples |-> <<"Brisk walking", "Yoga">>,
          duration |-> "30 minutes", intensity |-> "Moderate", notes |-> "Consistency matters"]
    ELSE [type |-> "Active routine", examples |-> <<"Jogging", "Strength training">>,
          duration |-> "45 minutes", intensity |-> "Moderate-High",
          notes |-> "Maintain balanced nutrition"]

\* the call has returned a response; the outcomes of its collaborator calls are kept
Reply(data, calls, status, body) ==
    [pc |-> "answered", request |-> data, calls |-> calls,
     response |-> [status |-> status, data |-> body]]

\* an exception has left get(): the call has no response
Abort(data, calls) == [pc |-> "aborted", request |-> data, calls |-> calls]

\* the body of DeficiencyStatus.get for the status of the three nutrients
StatusBody(data, status, llm) ==
    [life_stage |-> data.life_stage, region |-> data.region,
     intake |-> [n \in DOMAIN data.totals |-> PyRound(FInt(data.totals[n]), 2)],
     status |-> status,
     regional_food_suggestions |->
         [n \in {k \in DOMAIN status : status[k] = "LOW"} |->
             IF n \in DOMAIN data.regional_foods THEN data.regional_foods[n] ELSE <<>>],
     ai_explanation |-> Explanation(llm),
     disclaimer |-> "This is not medical advice."]

DeficiencyStatusGet(c) ==
    /\ eng[c].pc = "idle"
    /\ \E data \in requests, llm \in LlmOutcomes :
         /\ data.endpoint = "deficiency_status"
         /\ eng' = [eng EXCEPT ![c] =
                      Reply(data, [llm |-> llm], 200,
                             StatusBody(data,
                                        [n \in DOMAIN data.totals |->
                                            IntakeStatus(data.totals[n],
                                                         RDA_MAP(data.life_stage)[n])],
                                        llm))]
    /\ UNCHANGED <<requests, log>>

NutritionRiskPredictionGet(c) ==
    /\ eng[c].pc = "idle"
    /\ \E data \in requests, prediction \in PredictOutcomes :
         /\ data.endpoint = "risk_prediction"
         /\ eng' = [eng EXCEPT ![c] =
                      IF data.features = <<>>
                      THEN Reply(data, <<>>, 400,
                                  [message |-> "Not enough data for ML risk prediction"])
                      ELSE IF ~prediction.ok THEN Abort(data, [ml |-> prediction])
                      ELSE Reply(data, [ml |-> prediction], 200,
                                  [features |-> data.features,
                                   prediction |-> [risk_level |-> prediction.risk_level,
                                                   confidence |-> prediction.confidence]])]
    /\ UNCHANGED <<requests, log>>

\* the second class of this name is the one the module keeps
ExerciseRecommendationGet(c) ==
    /\ eng[c].pc = "idle"
    /\ \E data \in requests, prediction \in PredictOutcomes :
         /\ data.endpoint = "exercise"
         /\ eng' = [eng EXCEPT ![c] =
                      IF data.features = <<>>
                      THEN Reply(data, <<>>, 400,
                                  [message |-> "Not enough data for exercise recommendation"])
                      ELSE IF ~prediction.ok THEN Abort(data, [ml |-> prediction])
                      ELSE Reply(data, [ml |-> prediction, llm |-> ExplainExerciseCall], 200,
                                  [life_stage |-> data.life_stage,
                                   risk_level |-> prediction.risk_level,
                                   confidence |-> prediction.confidence,
                                   exercise_plan |-> get_exercise_plan(data.life_stage,
                                                                       prediction.risk_level),
                                   ai_explanation |-> Explanation(ExplainExerciseCall),
                                   disclaimer |-> "Exercise suggestions are general and not a substitute for professional advice."])]
    /\ UNCHANGED <<requests, log>>

NextGet ==
    \/ \E c \in DOMAIN eng : DeficiencyStatusGet(c)
    \/ \E c \in DOMAIN eng : NutritionRiskPredictionGet(c)
    \/ \E c \in DOMAIN eng : ExerciseRecommendationGet(c)

\* the users: a life stage with an allowance of its own or without one, a day's intake
\* below, within and above the allowances, a week with and without logged food
LifeStages == {"adult", "pregnant", "lactating", "teen"}

LoggedFeatures == [avg_iron |-> Dec(25, 10), avg_calcium |-> FInt(120),
                   avg_protein |-> Dec(65, 10), consistency |-> Dec(43, 100)]

GetRequests ==
    {[endpoint |-> "deficiency_status", life_stage |-> life_stage, region |-> "West India",
      totals |-> [iron |-> iron, calcium |-> calcium, protein |-> protein],
      regional_foods |-> [iron |-> <<"Bajra", "Jaggery">>]] :
        life_stage \in LifeStages, iron \in {5, 20, 40}, calcium \in {500, 1100},
        protein \in {30, 60, 100}}
    \cup {[endpoint |-> endpoint, life_stage |-> life_stage, features |-> features] :
              endpoint \in {"risk_prediction", "exercise"}, life_stage \in LifeStages,
              features \in {<<>>, LoggedFeatures}}

InitGet ==
    /\ requests = GetRequests
    /\ eng = [c \in {1} |-> Idle]
    /\ log = <<>>

SpecGet == InitGet /\ [][NextGet]_vars

(***************************************************************************)
(* The caller and the results it holds.  assess_nutrition_deficiency hands *)
(* the caller the mapping analyze() has compiled; the caller may change it *)
(* while other calls run.                                                  *)
(***************************************************************************)
\* what is left of a result whose lists the caller has emptied
Emptied(output) ==
    [output EXCEPT !.deficiency_risks = <<>>, !.alerts = <<>>, !.recommendations = <<>>]

\* the caller empties the lists of the k-th result it has received
MutateResult(k) ==
    /\ k \in 1..Len(log)
    /\ log[k].output # Emptied(log[k].output)
    /\ log' = [log EXCEPT ![k] = [@ EXCEPT !.output = Emptied(log[k].output)]]
    /\ UNCHANGED <<requests, eng>>

NextMutate ==
    \/ \E c \in DOMAIN eng : Construct(c)
    \/ \E c \in DOMAIN eng : CalculateBmi(c)
    \/ \E c \in DOMAIN eng : MapDemographicRisks(c)
    \/ \E c \in DOMAIN eng : AnalyzeDietaryPatterns(c)
    \/ \E c \in DOMAIN eng : IntegrateGeographicRisks(c)
    \/ \E c \in DOMAIN eng : AnalyzeQuestionnaire(c)
    \/ \E c \in DOMAIN eng : CalculateDeficiencyRisks(c)
    \/ \E c \in DOMAIN eng : GenerateAlerts(c)
    \/ \E c \in DOMAIN eng : GenerateRecommendations(c)
    \/ \E c \in DOMAIN eng : PrepareVisualizationData(c)
    \/ \E c \in DOMAIN eng : CompileOutput(c)
    \/ \E k \in DOMAIN eng : MutateResult(k)

SpecMutate == InitCalls /\ [][NextMutate]_vars

(***************************************************************************)
(* assess_nutrition_deficiency as one sequential program: the engine of a  *)
(* call that runs alone, after each group of steps of analyze().  The      *)
(* requests it is used for raise nothing.                                  *)
(***************************************************************************)
\* step 1
WithBmi(self) ==
    [self EXCEPT !.bmi_analysis = calculate_bmi(self.weight_kg, self.height_cm)]

\* steps 2 to 6
WithRisks(self) ==
    [self EXCEPT !.deficiency_risks =
                     _calculate_deficiency_risks(self, _map_demographic_risks(self),
                         _analyze_dietary_patterns(self), _integrate_geographic_risks(self),
                         _analyze_questionnaire(self))]

\* step 7
WithAlerts(self) == [self EXCEPT !.alerts = _generate_alerts(self)]

\* step 8
WithRecommendations(self) == [self EXCEPT !.recommendations = _generate_recommendations(self)]

\* step 9
WithVisualization(self) ==
    [self EXCEPT !.visualization_data = _prepare_visualization_data(self)]

\* analyze() from each step on: a step is taken on the engine as the steps before it
\* have left it, so that engine is evaluated first
AfterVisualization(self) == IF DOMAIN self = {} THEN <<>> ELSE _compile_output(self)

AfterRecommendations(self) ==
    IF DOMAIN self = {} THEN <<>> ELSE AfterVisualization(WithVisualization(self))

AfterAlerts(self) ==
    IF DOMAIN self = {} THEN <<>> ELSE AfterRecommendations(WithRecommendations(self))

AfterRisks(self) == IF DOMAIN self = {} THEN <<>> ELSE AfterAlerts(WithAlerts(self))

AfterBmi(self) == IF DOMAIN self = {} THEN <<>> ELSE AfterRisks(WithRisks(self))

AfterInit(self) == IF DOMAIN self = {} THEN <<>> ELSE AfterBmi(WithBmi(self))

\* engine = NutritionDeficiencyEngine(user_data); return engine.analyze()
assess_nutrition_deficiency(user_data) == AfterInit(EngineInit(user_data))

(***************************************************************************)
(* Properties.  A call has completed a step when its pc is behind the pc   *)
(* that enables the step.                                                  *)
(***************************************************************************)
StepOrder == <<"idle", "bmi", "demographic", "dietary", "geographic", "questionnaire",
               "risks", "alerts", "recommendations", "visualization", "compile", "done">>

\* a call that ended with an exception has completed no step for the purposes below
StepIndex(pc) == IF pc = "raised" THEN 0
                 ELSE CHOOSE i \in 1..Len(StepOrder) : StepOrder[i] = pc

\* the calls that have completed the step enabled at pc
After(pc) == {c \in DOMAIN eng : StepIndex(eng[c].pc) > StepIndex(pc)}

\* the calls that have returned
Returned == After("compile")

\* every list of risk records the state holds: the engines' and the returned outputs'
RiskLists ==
    {eng[c].deficiency_risks : c \in After("risks")}
    \cup {log[k].output.deficiency_risks : k \in 1..Len(log)}

\* the record a list of risk records holds for a nutrient
RecordOf(risks, nutrient) == risks[CHOOSE i \in 1..Len(risks) : risks[i].nutrient = nutrient]

\* the sum of the three contributions and the coverage penalty, before the clamp
UnclampedSum(c, n) ==
    FAdd(FAdd(FAdd(eng[c].demographic_risks[n], eng[c].geographic_risks[n]),
              eng[c].symptom_risks[n]),
         CoveragePenalty(FMul(eng[c].dietary_estimates[n].score, FInt(100))))

\* C1: every record of every list of risk records, in an engine or in a returned
\* output, has a probability_percent between 0 and 100 inclusive.
C1_ProbabilityInRange ==
    \A risks \in RiskLists : \A i \in 1..Len(risks) :
        /\ 0 <= Milli(risks[i].probability_percent)
        /\ Milli(risks[i].probability_percent) <= 100000

\* a returned call in which one nutrient's sum is above 100 and is emitted as 100 and
\* another's is below 0 and is emitted as 0
C1_BothClampsReached ==
    \E c \in Returned : \E hi, lo \in NutrientSet :
        /\ FLt(FInt(100), UnclampedSum(c, hi))
        /\ RecordOf(eng[c].output.deficiency_risks, hi).probability_percent = PyInt(100)
        /\ FLt(UnclampedSum(c, lo), FZero)
        /\ RecordOf(eng[c].output.deficiency_risks, lo).probability_percent = PyInt(0)

\* C2: once the three periods are scanned every nutrient's coverage score is in
\* [0.1, 1.0]; every record's coverage_percent is in [10, 100]; and the estimated
\* intake of the comparison chart is at most the RDA beside it.
C2_CoverageInRange ==
    /\ \A c \in After("dietary") : \A n \in NutrientSet :
          /\ FLe(HundredthF[10], eng[c].dietary_estimates[n].score)
          /\ FLe(eng[c].dietary_estimates[n].score, FInt(1))
    /\ \A risks \in RiskLists : \A i \in 1..Len(risks) :
          /\ 10000 <= Milli(risks[i].coverage_percent)
          /\ Milli(risks[i].coverage_percent) <= 100000
    /\ \A c \in After("visualization") :
          \A i \in 1..Len(eng[c].visualization_data.nutrient_comparison_chart) :
              Milli(eng[c].visualization_data.nutrient_comparison_chart[i].estimated_intake)
                  <= Milli(eng[c].visualization_data.nutrient_comparison_chart[i].who_rda)

\* a returned call whose habits drove one nutrient's score above 1.0 and another's
\* below 0.1 before the cap
C2_BothCapsReached ==
    \E c \in Returned : \E hi, lo \in NutrientSet :
        /\ FLt(FInt(1), ScannedScores(eng[c])[hi].score)
        /\ RecordOf(eng[c].output.deficiency_risks, hi).coverage_percent = PyRound(FInt(100), 1)
        /\ FLt(ScannedScores(eng[c])[lo].score, HundredthF[10])
        /\ RecordOf(eng[c].output.deficiency_risks, lo).coverage_percent = PyRound(FInt(10), 1)

\* the level the thresholds 30, 60 and 80 give an emitted probability, in thousandths
LevelOfEmitted(milli) ==
    IF milli <= 30000 THEN "low"
    ELSE IF milli <= 60000 THEN "moderate"
    ELSE IF milli <= 80000 THEN "high"
    ELSE "critical"

\* C3: in every record the risk_level is the level of the emitted probability_percent:
\* low up to 30, moderate above 30 up to 60, high above 60 up to 80, critical above 80.
C3_LevelAgreesWithEmitted ==
    \A risks \in RiskLists : \A i \in 1..Len(risks) :
        risks[i].risk_level = LevelOfEmitted(Milli(risks[i].probability_percent))

\* C4: every list of risk records has seven records, one for each tracked nutrient,
\* in non-increasing order of probability_percent.
C4_SevenSorted ==
    \A risks \in RiskLists :
        /\ Len(risks) = 7
        /\ \A n \in NutrientSet : Cardinality({i \in 1..Len(risks) : risks[i].nutrient = n}) = 1
        /\ \A i \in 1..(Len(risks) - 1) :
              Milli(risks[i].probability_percent) >= Milli(risks[i + 1].probability_percent)

\* a returned call whose records the sort had to move: the nutrient loop made a record
\* of smaller probability before one of greater probability
C4_SortMoved ==
    \E c \in Returned : \E i, j \in 1..Len(Nutrients) :
        /\ i < j
        /\ Milli(RecordOf(eng[c].output.deficiency_risks, Nutrients[i]).probability_percent)
             < Milli(RecordOf(eng[c].output.deficiency_risks, Nutrients[j]).probability_percent)

\* every list of alerts the state holds, with the risk records it was made from
AlertLists ==
    {<<eng[c].alerts, eng[c].deficiency_risks>> : c \in After("alerts")}
    \cup {<<log[k].output.alerts, log[k].output.deficiency_risks>> : k \in 1..Len(log)}

\* C5: every list of alerts is in non-decreasing order of priority and holds no alert
\* for a nutrient whose record has risk_level low.
C5_AlertsSortedNoneLow ==
    \A al \in AlertLists :
        /\ \A i \in 1..(Len(al[1]) - 1) : al[1][i].priority <= al[1][i + 1].priority
        /\ \A i \in 1..Len(al[1]) : RecordOf(al[2], al[1][i].nutrient).risk_level # "low"

\* a returned call with alerts of two priorities and with a record of low risk
C5_AlertsAndLow ==
    \E c \in Returned :
        /\ \E i, j \in 1..Len(eng[c].output.alerts) :
              eng[c].output.alerts[i].priority < eng[c].output.alerts[j].priority
        /\ \E i \in 1..Len(eng[c].output.deficiency_risks) :
              eng[c].output.deficiency_risks[i].risk_level = "low"

EqualsKey(table, location) == \E i \in 1..Len(table) : table[i].state = location

\* a key of the table is within the location, whatever the case of the letters
HoldsKey(table, location) ==
    \E i \in 1..Len(table) : Contains(Lower(table[i].state), Lower(location))

\* the location is within a key of the table, whatever the case of the letters
WithinKey(table, location) ==
    \E i \in 1..Len(table) : Contains(Lower(location), Lower(table[i].state))

\* the location is text other than spaces
NonBlank(location) == Truthy(location) /\ Strip(location.s) # ""

IsNationalAnemia(data) ==
    data.prevalence = 520 /\ data.severity = "moderate" /\ data.urban_rural = "mixed"

IsNationalGroundwater(data) ==
    data.health_impact = "Regional data unavailable, using national baseline"

IsDefaultVitaminD(data) == data.state = "default" /\ data.factor = 110

\* C8 as stated: for a non-blank location that equals no key of a table and holds no
\* key of it, the lookup in that table returns the table's default.
C8_UnknownGetsDefault ==
    \A c \in After("geographic") :
        NonBlank(eng[c].location) =>
            /\ (~EqualsKey(REGIONAL_ANEMIA_PREVALENCE, eng[c].location.s)
                /\ ~HoldsKey(REGIONAL_ANEMIA_PREVALENCE, eng[c].location.s))
               => IsNationalAnemia(get_regional_anemia_data(eng[c].location.s))
            /\ (~EqualsKey(GROUNDWATER_MINERAL_DATA, eng[c].location.s)
                /\ ~HoldsKey(GROUNDWATER_MINERAL_DATA, eng[c].location.s))
               => IsNationalGroundwater(get_groundwater_data(eng[c].location.s))
            /\ (~EqualsKey(VITAMIN_D_REGIONAL_RISK, eng[c].location.s)
                /\ ~HoldsKey(VITAMIN_D_REGIONAL_RISK, eng[c].location.s))
               => IsDefaultVitaminD(get_vitamin_d_regional_risk(eng[c].location.s))

\* the location matches no key of the table in any of the three ways
Unmatched(table, location) ==
    ~EqualsKey(table, location) /\ ~HoldsKey(table, location) /\ ~WithinKey(table, location)

\* the location matches no key of any of the three tables
UnknownLocation(location) ==
    /\ Unmatched(REGIONAL_ANEMIA_PREVALENCE, location)
    /\ Unmatched(GROUNDWATER_MINERAL_DATA, location)
    /\ Unmatched(VITAMIN_D_REGIONAL_RISK, location)

\* the first entry of the table whose key holds the location or is within it
FirstPartial(table, location) ==
    table[CHOOSE i \in 1..Len(table) :
            /\ \/ Contains(Lower(table[i].state), Lower(location))
               \/ Contains(Lower(location), Lower(table[i].state))
            /\ \A j \in 1..(i - 1) :
                  /\ ~Contains(Lower(table[j].state), Lower(location))
                  /\ ~Contains(Lower(location), Lower(table[j].state))]

\* what the chain returns from a table: the entry of the equal key, else the first
\* entry matched in part, and nothing of the table when no key matches
FollowsChain(table, location, data) ==
    IF EqualsKey(table, location) THEN data.state = location
    ELSE IF HoldsKey(table, location) \/ WithinKey(table, location)
    THEN data = FirstPartial(table, location)
    ELSE \A i \in 1..Len(table) : table[i].state = "default" \/ data # table[i]

\* C8 as amended: every lookup returns the entry of the equal key, else the first
\* entry whose key is within the location or holds the location, whatever the case
\* of the letters; a non-blank location that no key of a table matches in any of
\* these ways gets that table's default, and the contributions of a location unknown
\* to all three tables are those of the three defaults.
C8_LookupChain ==
    \A c \in After("geographic") :
        NonBlank(eng[c].location) =>
            /\ FollowsChain(REGIONAL_ANEMIA_PREVALENCE, eng[c].location.s,
                            get_regional_anemia_data(eng[c].location.s))
            /\ FollowsChain(GROUNDWATER_MINERAL_DATA, eng[c].location.s,
                            get_groundwater_data(eng[c].location.s))
            /\ FollowsChain(VITAMIN_D_REGIONAL_RISK, eng[c].location.s,
                            get_vitamin_d_regional_risk(eng[c].location.s))
            /\ Unmatched(REGIONAL_ANEMIA_PREVALENCE, eng[c].location.s)
               => IsNationalAnemia(get_regional_anemia_data(eng[c].location.s))
            /\ Unmatched(GROUNDWATER_MINERAL_DATA, eng[c].location.s)
               => IsNationalGroundwater(get_groundwater_data(eng[c].location.s))
            /\ Unmatched(VITAMIN_D_REGIONAL_RISK, eng[c].location.s)
               => IsDefaultVitaminD(get_vitamin_d_regional_risk(eng[c].location.s))
            /\ UnknownLocation(eng[c].location.s)
               => /\ eng[c].geographic_risks["iron"] = FInt(15)
                  /\ PyRound(eng[c].geographic_risks["vitamin_d"], 1) = [n |-> 30, digits |-> 1]
                  /\ \A n \in NutrientSet \ {"iron", "vitamin_d"} :
                        eng[c].geographic_risks[n] = FZero

\* a returned call whose location no key of any table matches
C8_UnknownReturned ==
    \E c \in Returned :
        /\ NonBlank(eng[c].location)
        /\ UnknownLocation(eng[c].location.s)
        /\ eng[c].output.visualization_data.urban_trend_flag = "mixed"

\* the call's height and weight are both above 0
Positive(c) == FLt(FZero, eng[c].height_cm) /\ FLt(FZero, eng[c].weight_kg)

\* the category the boundaries 18.5, 25 and 30 give an emitted bmi_value, in thousandths
CategoryOfEmitted(milli) ==
    IF milli < 18500 THEN "underweight"
    ELSE IF milli < 25000 THEN "normal"
    ELSE IF milli < 30000 THEN "overweight"
    ELSE "obese"

\* C9: for positive height and weight the category of the BMI analysis is the one the
\* boundaries give the emitted bmi_value: underweight below 18.5, normal from 18.5
\* below 25, overweight from 25 below 30, obese from 30.
C9_CategoryAgreesWithEmitted ==
    \A c \in After("bmi") :
        Positive(c) =>
            eng[c].bmi_analysis.category
                = CategoryOfEmitted(Milli(eng[c].bmi_analysis.bmi_value))

\* the six keys of a full result
OutputKeys == {"bmi_analysis", "demographic_summary", "deficiency_risks", "alerts",
               "recommendations", "visualization_data"}

\* C10: when the height or the weight is not above 0 the BMI analysis is bmi_value 0
\* with category unknown; the demographic contributions are those of a person of
\* normal BMI, who gets neither the underweight nor the obese delta; every later step
\* the call has taken has left its result; and the result returned is full.
C10_InvalidMeasurements ==
    /\ \A c \in After("bmi") :
          ~Positive(c) =>
              /\ eng[c].bmi_analysis.bmi_value = PyInt(0)
              /\ eng[c].bmi_analysis.category = "unknown"
    /\ \A c \in After("demographic") :
          ~Positive(c) =>
              eng[c].demographic_risks
                  = _map_demographic_risks([eng[c] EXCEPT !.bmi_analysis.category = "normal"])
    /\ \A c \in After("dietary") :
          ~Positive(c) => DOMAIN eng[c].dietary_estimates = NutrientSet
    /\ \A c \in After("geographic") :
          ~Positive(c) => DOMAIN eng[c].geographic_risks = NutrientSet
    /\ \A c \in After("questionnaire") :
          ~Positive(c) => DOMAIN eng[c].symptom_risks = NutrientSet
    /\ \A c \in After("risks") :
          ~Positive(c) => Len(eng[c].deficiency_risks) = 7
    /\ \A c \in After("visualization") :
          ~Positive(c) => Len(eng[c].visualization_data.nutrient_comparison_chart) = 7
    /\ \A c \in Returned :
          ~Positive(c) =>
              /\ DOMAIN eng[c].output = OutputKeys
              /\ eng[c].output.bmi_analysis.category = "unknown"
              /\ eng[c].output.bmi_analysis.bmi_value = PyInt(0)
              /\ Len(eng[c].output.deficiency_risks) = 7
              /\ Len(eng[c].output.visualization_data.risk_radar_chart) = 7
              /\ Contains("BMI: 0 (unknown)", eng[c].output.demographic_summary)

\* a returned call whose height was 0
C10_ZeroHeightReturned ==
    \E c \in Returned :
        /\ eng[c].height_cm = FZero
        /\ FLt(FZero, eng[c].weight_kg)
        /\ eng[c].output.bmi_analysis.category = "unknown"

\* the part of a nutrient's demographic contribution that the diet's entry adds: what
\* is left of it after the age, gender, life-stage and BMI deltas
DietShare(c, n) ==
    FSub(eng[c].demographic_risks[n],
         FInt(Pick(AgeRisks(eng[c].age), n) + Pick(GenderRisks(eng[c].gender, eng[c].age), n)
              + Pick(HealthRisks(eng[c].health_category), n)
              + Pick(BmiRisks(eng[c].bmi_analysis.category), n)))

\* C11: for the documented example (a woman of 30, 160 cm, 45 kg, adult, vegan, West
\* Bengal, empty habits) the BMI analysis is 17.58 and "underweight", the diet lookup
\* gives the vegan entry, the diet adds 25 x 2.5 = 62.5 to vitamin_b12, and the
\* demographic contribution of vitamin_b12 is at least 62.5.
C11_ExampleDemographics ==
    /\ \A c \in After("bmi") :
          eng[c].user_data = Example =>
              /\ eng[c].bmi_analysis.bmi_value = [n |-> 1758, digits |-> 2]
              /\ eng[c].bmi_analysis.category = "underweight"
    /\ \A c \in After("demographic") :
          eng[c].user_data = Example =>
              /\ get_dietary_risk_factors(eng[c].dietary_preference).diet = "vegan"
              /\ DietShare(c, "vitamin_b12") = Dec(625, 10)
              /\ FLe(Dec(625, 10), eng[c].demographic_risks["vitamin_b12"])

\* the example has returned, its vitamin_b12 contribution being 15 + 62.5
C11_ExampleReturned ==
    \E c \in Returned :
        /\ eng[c].user_data = Example
        /\ eng[c].demographic_risks["vitamin_b12"] = Dec(775, 10)
        /\ eng[c].output.bmi_analysis.category = "underweight"

\* the nutrients of a list of risk records, in the list's order
NutrientsOf(risks) == [i \in 1..Len(risks) |-> risks[i].nutrient]

\* the probabilities of a list of risk records in thousandths, in the list's order
ProbabilitiesOf(risks) == [i \in 1..Len(risks) |-> Milli(risks[i].probability_percent)]

\* C12 (as the code has it): for the documented example the records are ranked iron
\* (100), vitamin_b12 (92.5), zinc (70.0), calcium (67.5), protein (54.5), vitamin_d
\* (27.0), magnesium (15.0): the first three are iron, vitamin_b12 and zinc, and
\* protein is the fifth.
C12_ExampleRanking ==
    \A c \in After("risks") :
        eng[c].user_data = Example =>
            /\ NutrientsOf(eng[c].deficiency_risks)
                 = <<"iron", "vitamin_b12", "zinc", "calcium", "protein", "vitamin_d",
                     "magnesium">>
            /\ ProbabilitiesOf(eng[c].deficiency_risks)
                 = <<100000, 92500, 70000, 67500, 54500, 27000, 15000>>

\* the example has returned with its seven records
C12_ExampleRanked ==
    \E c \in Returned :
        /\ eng[c].user_data = Example
        /\ Len(eng[c].output.deficiency_risks) = 7
        /\ eng[c].output.deficiency_risks[3].nutrient = "zinc"

\* C12 (as stated): for the documented example the first three records of
\* deficiency_risks are iron, vitamin_b12 and protein, in some order.
C12_ExampleTopThree ==
    \A c \in After("risks") :
        eng[c].user_data = Example =>
            {eng[c].deficiency_risks[i].nutrient : i \in 1..3}
              = {"iron", "vitamin_b12", "protein"}

\* the text of a preference in lower case; a preference that is no text names nothing
PreferenceLower(preference) == IF preference.t = "str" THEN Lower(preference.s) ELSE ""

\* the preference names a known diet: a key of the diet table lies within its text
NamesDiet(preference) ==
    \E i \in 1..Len(DIETARY_RISK_FACTORS) :
        Contains(DIETARY_RISK_FACTORS[i].diet, PreferenceLower(preference))

\* what the non_vegetarian entry adds to a nutrient: 15 x 1.1 to magnesium, else nothing
BaselineShare(n) == IF n = "magnesium" THEN Dec(165, 10) ELSE FZero

\* C13: a preference that reads "non_vegetarian" in any letter case, and a preference
\* that names no known diet key, are scored with the non_vegetarian entry: the diet
\* adds 15 x 1.1 to magnesium and nothing to any other nutrient.
C13_NonVegetarianBaseline ==
    \A c \in After("demographic") :
        (\/ PreferenceLower(eng[c].dietary_preference) = "non_vegetarian"
         \/ ~NamesDiet(eng[c].dietary_preference)) =>
            /\ get_dietary_risk_factors(eng[c].dietary_preference).diet = "non_vegetarian"
            /\ \A n \in NutrientSet : DietShare(c, n) = BaselineShare(n)

\* gender is female, in any letter case
IsFemale(gender) == gender.t = "str" /\ Lower(gender.s) = "female"

\* the gender delta as the code applies it: +20 iron to a female user of 14 to 50,
\* +10 calcium to every female user
GenderDelta(gender, age, n) ==
    IF ~IsFemale(gender) THEN 0
    ELSE IF n = "iron" /\ Between(14, age, 50) THEN 20
    ELSE IF n = "calcium" THEN 10
    ELSE 0

\* the gender delta as stated: +20 iron and +10 calcium to a female user of 14 to 50
ReproductiveDelta(gender, age, n) ==
    IF ~(IsFemale(gender) /\ Between(14, age, 50)) THEN 0
    ELSE IF n = "iron" THEN 20
    ELSE IF n = "calcium" THEN 10
    ELSE 0

\* what gender adds to a nutrient's demographic contribution: what is left of it after
\* the age, life-stage and BMI deltas and after what the diet's entry adds
DietAdded(c, n) ==
    AddDietRisks(
        AddDietRisks([m \in NutrientSet |-> FZero],
                     get_dietary_risk_factors(eng[c].dietary_preference),
                     get_dietary_risk_factors(eng[c].dietary_preference).high_risk, 25, 15, 1),
        get_dietary_risk_factors(eng[c].dietary_preference),
        get_dietary_risk_factors(eng[c].dietary_preference).moderate_risk, 15, 12, 1)[n]

GenderShare(c, n) ==
    FSub(FSub(eng[c].demographic_risks[n], DietAdded(c, n)),
         FInt(Pick(AgeRisks(eng[c].age), n) + Pick(HealthRisks(eng[c].health_category), n)
              + Pick(BmiRisks(eng[c].bmi_analysis.category), n)))

\* C14 (as the code has it): gender adds +20 iron exactly when the user is female and
\* 14 <= age <= 50, and +10 calcium to every female user whatever her age; for a user
\* who is not female gender adds nothing to any nutrient.
C14_GenderDelta ==
    \A c \in After("demographic") : \A n \in NutrientSet :
        GenderShare(c, n) = FInt(GenderDelta(eng[c].gender, eng[c].age, n))

\* a female user older than 50 has returned: gender gave her +10 calcium and no iron
C14_OlderWomanReturned ==
    \E c \in Returned :
        /\ IsFemale(eng[c].gender)
        /\ FLt(FInt(50), eng[c].age)
        /\ GenderShare(c, "calcium") = FInt(10)
        /\ GenderShare(c, "iron") = FZero

\* C14 (as stated): gender adds +20 iron and +10 calcium exactly when the user is
\* female and 14 <= age <= 50, and nothing for a male user or for a female user
\* younger than 14 or older than 50.
C14_ReproductiveOnly ==
    \A c \in After("demographic") : \A n \in NutrientSet :
        GenderShare(c, n) = FInt(ReproductiveDelta(eng[c].gender, eng[c].age, n))

\* the calls that have been made: their engines are constructed
Constructed == {c \in DOMAIN eng : eng[c].pc # "idle"}

\* C16: whatever the type or content of the values of the input mapping, the
\* constructed engine holds a string in every text field and a mapping as the
\* questionnaire (its numeric fields are floats by construction), and no step of
\* analyze() ends with an exception.
C16_FieldsNormalized ==
    \A c \in Constructed :
        /\ \A key \in TextKeys : eng[c][key].t = "str"
        /\ ~IsValue(eng[c].questionnaire)
        /\ eng[c].pc # "raised"

\* the number a required numeric field holds lies in the field's range
InRange(value, lo, hi) ==
    /\ value.t = "num" \/ (value.t = "str" /\ ParseFloat(Strip(RemoveChar(value.s, ",", 1))).ok)
    /\ Between(lo, _parse_numeric(value), hi)

\* the required fields are valid
ValidRequired(user_data) ==
    /\ InRange(user_data.age, 1, 120)
    /\ InRange(user_data.height_cm, 1, 300)
    /\ InRange(user_data.weight_kg, 1, 500)
    /\ user_data.gender.t = "str"
    /\ Lower(user_data.gender.s) \in {"male", "female", "other"}

\* every optional field is left out or holds a text (blank, or matching a table key or
\* none), and the questionnaire is left out or is a mapping of texts, possibly empty
SoftGaps(user_data) ==
    /\ \A key \in OptionalKeys : user_data[key].t \in {"absent", "str"}
    /\ \/ user_data.questionnaire_responses = Absent
       \/ /\ ~IsValue(user_data.questionnaire_responses)
          /\ \A key \in QKeys : user_data.questionnaire_responses[key].t \in {"absent", "str"}

\* a preference that is given and matches no key of the diet table: no key lies within
\* its text and its text lies within no key
MatchesNoDiet(preference) ==
    /\ Truthy(preference)
    /\ \A i \in 1..Len(DIETARY_RISK_FACTORS) :
           /\ ~Contains(DIETARY_RISK_FACTORS[i].diet, PreferenceLower(preference))
           /\ ~Contains(PreferenceLower(preference), DIETARY_RISK_FACTORS[i].diet)

\* the documented default of an optional field
DefaultOf(key) ==
    IF key = "health_category" THEN StrV("adult")
    ELSE IF key = "dietary_preference" THEN StrV("vegetarian")
    ELSE StrV("")

Posts == {c \in DOMAIN eng : eng[c].pc # "idle"}

\* the calls of the view that have answered
Answered == {c \in DOMAIN eng : eng[c].pc \in {"rejected", "responded", "failed"}}

\* the number a required field states, as the request reads: ok is FALSE for a field that
\* is left out, null, no text and no number, or a text that is no numeral
Stated(value) ==
    IF value.t = "num" THEN [ok |-> TRUE, x |-> Dec(value.n, value.d)]
    ELSE IF value.t = "str" THEN ParseFloat(Strip(RemoveChar(value.s, ",", 1)))
    ELSE [ok |-> FALSE, x |-> FZero]

\* the required field states a number within 1..limit
Within(value, limit) ==
    Stated(value).ok /\ FLe(FInt(1), Stated(value).x) /\ FLe(Stated(value).x, FInt(limit))

\* the required fields of a request that offend the documented ranges
Offending(data) ==
    {key \in {"age"} : ~Within(data.age, 120)}
    \cup {key \in {"height_cm"} : ~Within(data.height_cm, 300)}
    \cup {key \in {"weight_kg"} : ~Within(data.weight_kg, 500)}
    \cup {key \in {"gender"} : \/ data.gender.t # "str"
                               \/ Lower(Strip(data.gender.s)) \notin {"male", "female", "other"}}

\* C15: a POST whose age is no number or outside 1..120, whose height_cm is no number or
\* outside 1..300, whose weight_kg is no number or outside 1..500, or whose gender is not
\* male, female or other, is rejected with status 400, the response lists each such
\* field, and the engine is not constructed for it.
C15_OutOfRangeRejected ==
    \A c \in Posts :
        Offending(eng[c].request) # {} =>
            /\ eng[c].pc = "rejected"
            /\ eng[c].response.status = 400
            /\ Offending(eng[c].request) \subseteq DOMAIN eng[c].response.data.details

\* C18: a call of the view has no response until it ends, and it ends in one of three
\* ways: rejected, for a request the serializer finds invalid, with status 400 and the
\* errors of at least one field; answered, when analyze() has returned, with status 200
\* and the six sections of the full result; or failed, when a step has raised, with status
\* 500 and a body of an error text and a description and no section of a result.  A
\* failed or rejected call has logged no result, and no call has logged more than one.
C18_ThreeOutcomes ==
    /\ \A c \in DOMAIN eng \ Answered : "response" \notin DOMAIN eng[c]
    /\ \A c \in Answered :
          CASE eng[c].pc = "rejected" ->
                 /\ ~is_valid(eng[c].request)
                 /\ eng[c].response.status = 400
                 /\ DOMAIN eng[c].response.data = {"error", "details"}
                 /\ DOMAIN eng[c].response.data.details # {}
                 /\ DOMAIN eng[c].response.data.details
                        \subseteq UserKeys \cup {"questionnaire_responses"}
            [] eng[c].pc = "responded" ->
                 /\ is_valid(eng[c].request)
                 /\ eng[c].response.status = 200
                 /\ DOMAIN eng[c].response.data = OutputKeys
                 /\ Len(eng[c].response.data.deficiency_risks) = 7
                 /\ eng[c].response.data.bmi_analysis # <<>>
                 /\ eng[c].response.data.visualization_data # <<>>
            [] OTHER ->
                 /\ is_valid(eng[c].request)
                 /\ eng[c].response.status = 500
                 /\ DOMAIN eng[c].response.data = {"error", "details"}
                 /\ eng[c].response.data.details \in STRING
    /\ Len(log) <= Cardinality({c \in DOMAIN eng : eng[c].pc \in {"done", "responded"}})

\* a call has failed at a step of the pipeline and has been answered with status 500
C18_FailureAnswered ==
    \E c \in Answered : eng[c].pc = "failed" /\ eng[c].response.status = 500

(***************************************************************************)
(* The GET endpoints (SpecGet).                                            *)
(***************************************************************************)
\* the calls of a GET endpoint that have ended, with a response or without one
Ended == {c \in DOMAIN eng : eng[c].pc \in {"answered", "aborted"}}

\* the collaborators whose call has failed in a call of an endpoint
FailedCalls(c) == {k \in DOMAIN eng[c].calls : ~eng[c].calls[k].ok}

\* C19: a call of an endpoint in which the language-model call or the risk classifier
\* has failed still ends with its result: it has a response with status 200, with the
\* fixed text in place of the explanation when the language model failed, and with the
\* other fields of the result.
C19_CollaboratorFailureRecovered ==
    \A c \in Ended :
        FailedCalls(c) # {} =>
            /\ eng[c].pc = "answered"
            /\ eng[c].response.status = 200
            /\ "llm" \in FailedCalls(c)
                   => eng[c].response.data.ai_explanation = "AI explanation unavailable."
            /\ "disclaimer" \in DOMAIN eng[c].response.data
                   \/ "features" \in DOMAIN eng[c].response.data

C21_InterleavedAsAlone ==
    /\ \A c \in Returned : eng[c].output = assess_nutrition_deficiency(eng[c].user_data)
    /\ \A k \in 1..Len(log) : log[k].output = assess_nutrition_deficiency(log[k].user_data)

\* the second call has returned, for another input than the first, while the first call
\* stands between two of its steps
C21_OvertakenCall ==
    /\ 2 \in Returned
    /\ eng[1].pc \in {"dietary", "geographic", "questionnaire", "risks", "alerts"}
    /\ eng[1].user_data # eng[2].user_data

\* the coverage scores the monotonicity is tried on: 0.10, 0.15, ... 1.00
ScoreGrid == {HundredthF[5 * k] : k \in 2..20}

\* the probability a nutrient's four inputs give, as it is emitted
ProbabilityOf(c, n, dietary_score) ==
    EmitProbability(FinalProbability(eng[c].demographic_risks[n], eng[c].geographic_risks[n],
                                     eng[c].symptom_risks[n], dietary_score))

\* a mapping of contributions with the entry of every nutrient but n replaced
OthersReplaced(risks, n, value) == [m \in NutrientSet |-> IF m = n THEN risks[m] ELSE value]

\* the record of nutrient n with the contributions and scores of all other nutrients
\* replaced
RecordWithOthersReplaced(c, n) ==
    NutrientRisk(eng[c], n,
        OthersReplaced(eng[c].demographic_risks, n, FInt(50)),
        [m \in NutrientSet |-> IF m = n THEN eng[c].dietary_estimates[m]
                               ELSE [eng[c].dietary_estimates[m] EXCEPT !.score = HundredthF[10]]],
        OthersReplaced(eng[c].geographic_risks, n, FInt(50)),
        OthersReplaced(eng[c].symptom_risks, n, FInt(50)))

\* C22: every record's probability is clamp(demographic + geographic + symptom + penalty,
\* 0, 100) with penalty = max(0, (70 - 100 x score) x 0.5); the penalty is 0 when the score
\* is at least 0.7 and never above 30; the record of a nutrient is the same whatever the
\* other nutrients' contributions are; and a greater score never gives a greater
\* probability.
C22_ProbabilityFormula ==
    \A c \in After("risks") : \A n \in NutrientSet :
        /\ RecordOf(eng[c].deficiency_risks, n).probability_percent
               = EmitProbability(ClampProbability(UnclampedSum(c, n)))
        /\ FLe(HundredthF[70], eng[c].dietary_estimates[n].score)
               => CoveragePenalty(FMul(eng[c].dietary_estimates[n].score, FInt(100))) = FZero
        /\ FLe(CoveragePenalty(FMul(eng[c].dietary_estimates[n].score, FInt(100))), FInt(30))
        /\ FLe(FZero, CoveragePenalty(FMul(eng[c].dietary_estimates[n].score, FInt(100))))
        /\ RecordWithOthersReplaced(c, n) = RecordOf(eng[c].deficiency_risks, n)
        /\ \A s \in ScoreGrid :
              /\ FLe(eng[c].dietary_estimates[n].score, s)
                    => Milli(ProbabilityOf(c, n, s))
                           <= Milli(RecordOf(eng[c].deficiency_risks, n).probability_percent)
              /\ FLe(s, eng[c].dietary_estimates[n].score)
                    => Milli(RecordOf(eng[c].deficiency_risks, n).probability_percent)
                           <= Milli(ProbabilityOf(c, n, s))

\* a returned call with one nutrient at score 0.1, penalty 30, and another at a score of
\* 0.7 or more, penalty 0, where a greater grid score gives the first a smaller
\* probability
C22_BothEndsOfPenalty ==
    \E c \in Returned : \E lo, hi \in NutrientSet :
        /\ eng[c].dietary_estimates[lo].score = HundredthF[10]
        /\ CoveragePenalty(FMul(eng[c].dietary_estimates[lo].score, FInt(100))) = FInt(30)
        /\ FLe(HundredthF[70], eng[c].dietary_estimates[hi].score)
        /\ CoveragePenalty(FMul(eng[c].dietary_estimates[hi].score, FInt(100))) = FZero
        /\ \E s \in ScoreGrid :
              Milli(ProbabilityOf(c, lo, s))
                  < Milli(RecordOf(eng[c].output.deficiency_risks, lo).probability_percent)

\* the positions of the alerts of a list that are about a nutrient
AlertsAbout(alerts, nutrient) == {j \in 1..Len(alerts) : alerts[j].nutrient = nutrient}

\* the primary lab test RECOMMENDED_LAB_TESTS names for a nutrient
PrimaryTest(nutrient) ==
    RECOMMENDED_LAB_TESTS[CHOOSE i \in 1..Len(RECOMMENDED_LAB_TESTS) :
                              RECOMMENDED_LAB_TESTS[i][1] = nutrient][2]

\* the priority and the action the alert of a record has
ExpectedAlert(risk) ==
    CASE risk.risk_level = "critical" ->
           [priority |-> 1, action |-> "Recommend: " \o PrimaryTest(risk.nutrient)]
      [] risk.risk_level = "high" ->
           [priority |-> 2, action |-> "Consider: " \o PrimaryTest(risk.nutrient)]
      [] risk.risk_level = "moderate" ->
           [priority |-> 3, action |-> "Dietary modification recommended"]

\* C23: in every list of alerts, a record that is not low has exactly one alert, with
\* priority 1 and the nutrient's lab test for critical, priority 2 and the lab test for
\* high, priority 3 and the dietary-modification action for moderate; a low record has
\* none; and there are as many alerts as records that are not low.
C23_OneAlertPerRecord ==
    \A al \in AlertLists :
        /\ \A i \in 1..Len(al[2]) :
              IF al[2][i].risk_level = "low"
              THEN AlertsAbout(al[1], al[2][i].nutrient) = {}
              ELSE /\ Cardinality(AlertsAbout(al[1], al[2][i].nutrient)) = 1
                   /\ \A j \in AlertsAbout(al[1], al[2][i].nutrient) :
                         /\ al[1][j].priority = ExpectedAlert(al[2][i]).priority
                         /\ al[1][j].action = ExpectedAlert(al[2][i]).action
        /\ Len(al[1]) = Cardinality({i \in 1..Len(al[2]) : al[2][i].risk_level # "low"})

\* a returned call with a critical, a high, a moderate and a low record, and three
\* alerts or more
C23_AllLevelsReturned ==
    \E c \in Returned :
        /\ \A level \in {"critical", "high", "moderate", "low"} :
              \E i \in 1..Len(eng[c].output.deficiency_risks) :
                  eng[c].output.deficiency_risks[i].risk_level = level
        /\ Len(eng[c].output.alerts) >= 3

\* the habit string an engine scans for a period
HabitString(self, time_period) ==
    CASE time_period = "morning"   -> LowerOrEmpty(self.morning_habits)
      [] time_period = "afternoon" -> LowerOrEmpty(self.afternoon_habits)
      [] time_period = "evening"   -> LowerOrEmpty(self.evening_habits)

\* the members of a list
Members(seq) == {seq[i] : i \in 1..Len(seq)}

\* the entries <<i, j>> of HABIT_NUTRIENT_PATTERNS, pattern i and its j-th nutrient, whose
\* pattern occurs in one of the habit strings of the engine and whose nutrient is tracked
AppliedDeltas(self) ==
    {ij \in {<<i, j>> : i \in 1..Len(HABIT_NUTRIENT_PATTERNS), j \in 1..7} :
        /\ ij[2] <= Len(HABIT_NUTRIENT_PATTERNS[ij[1]][2])
        /\ HABIT_NUTRIENT_PATTERNS[ij[1]][2][ij[2]][1] \in NutrientSet
        /\ \E p \in {"morning", "afternoon", "evening"} :
              Contains(HABIT_NUTRIENT_PATTERNS[ij[1]][1], HabitString(self, p))}

\* C24: for every matched pattern and tracked nutrient, a supporting-evidence entry is
\* recorded iff the delta is positive and an absorption-penalty note iff the delta is
\* negative; and no cause of a record blames a pattern whose delta for the record's
\* nutrient is not negative.
C24_EvidenceBySign ==
    /\ \A c \in After("dietary") : \A ij \in AppliedDeltas(eng[c]) :
          /\ (\E p \in {"morning", "afternoon", "evening"} :
                 (HABIT_NUTRIENT_PATTERNS[ij[1]][1] \o " (" \o p \o ")")
                     \in Members(eng[c].dietary_estimates[
                             HABIT_NUTRIENT_PATTERNS[ij[1]][2][ij[2]][1]].sources))
                <=> HABIT_NUTRIENT_PATTERNS[ij[1]][2][ij[2]][2] > 0
          /\ (HABIT_NUTRIENT_PATTERNS[ij[1]][1] \o " reduces absorption")
                    \in Members(eng[c].dietary_estimates[
                            HABIT_NUTRIENT_PATTERNS[ij[1]][2][ij[2]][1]].patterns)
                <=> HABIT_NUTRIENT_PATTERNS[ij[1]][2][ij[2]][2] < 0
    /\ \A c \in After("risks") : \A ij \in AppliedDeltas(eng[c]) :
          (HABIT_NUTRIENT_PATTERNS[ij[1]][1] \o " reduces absorption")
                \in Members(RecordOf(eng[c].deficiency_risks,
                                HABIT_NUTRIENT_PATTERNS[ij[1]][2][ij[2]][1]).primary_causes)
            => HABIT_NUTRIENT_PATTERNS[ij[1]][2][ij[2]][2] < 0

\* a symptom's answer falls in the strong or in the moderate bucket
Reported(q, symptom) == Answer(q, symptom) \in StrongAnswers \cup WeakAnswers

\* the call-out of each symptom
CallOuts ==
    <<<<"fatigue", "Fatigue symptoms reported">>,
      <<"hair_fall", "Hair fall symptoms reported">>,
      <<"muscle_cramps", "Muscle cramps reported">>>>

\* C25: a record's primary_causes name a symptom only if the questionnaire's answer to
\* that symptom falls in the strong or the moderate bucket.
C25_CallOutOnlyIfReported ==
    \A c \in After("risks") : \A i \in 1..Len(eng[c].deficiency_risks) : \A k \in 1..3 :
        CallOuts[k][2] \in Members(eng[c].deficiency_risks[i].primary_causes)
            => Reported(eng[c].questionnaire, CallOuts[k][1])

\* the answer to sun_exposure_minutes_per_day, Absent when the key is not reported
SunAnswer(q) == Get(q, "sun_exposure_minutes_per_day", Absent)

\* the answer is a number, or a text that is a number
SunValueReported(q) ==
    \/ SunAnswer(q).t = "num"
    \/ /\ SunAnswer(q).t = "str"
       /\ RemoveChar(SunAnswer(q).s, ".", 1) # ""
       /\ AllDigits(RemoveChar(SunAnswer(q).s, ".", 1))

\* the recommendations hold the sun-exposure lifestyle recommendation
HasSunRecommendation(recommendations) ==
    \E i \in 1..Len(recommendations) :
        /\ recommendations[i].category = "lifestyle"
        /\ recommendations[i].nutrient = "vitamin_d"

\* C26: the recommendations hold the sun-exposure recommendation exactly when the
\* questionnaire reports a value below 20, as a number or as text, 0 included; they do not
\* hold it when the value is 20 or more or the key is not reported.
C26_SunRecommendationBelow20 ==
    \A c \in After("recommendations") :
        /\ SunValueReported(eng[c].questionnaire)
              => (HasSunRecommendation(eng[c].recommendations)
                    <=> FLt(_parse_numeric(SunAnswer(eng[c].questionnaire)), FInt(20)))
        /\ SunAnswer(eng[c].questionnaire) = Absent
              => ~HasSunRecommendation(eng[c].recommendations)

\* the health category the demographic mapper tests
HealthCat(self) == IF Truthy(self.health_category) THEN Lower(self.health_category.s) ELSE ""

\* recommended_intake as it is emitted for a benchmark given in tenths
IntakeText(nutrient, tenths) == NumStr(RdaNum(tenths)) \o " " \o NutrientUnit(nutrient) \o "/day"

\* the benchmark of the life stage the demographic mapper scores a woman with: column 7
\* is pregnant, column 8 lactating, the others the age bands
StageBenchmark(self, nutrient) ==
    IF Contains("pregnant", HealthCat(self)) THEN WHO_RDA_BENCHMARKS[RdaRow(nutrient)][3][7]
    ELSE IF Contains("lactating", HealthCat(self)) THEN WHO_RDA_BENCHMARKS[RdaRow(nutrient)][3][8]
    ELSE WHO_RDA_BENCHMARKS[RdaRow(nutrient)][3][get_age_category(self.age)]

\* C27: for a female user the RDA of every record is the pregnant benchmark whenever the
\* demographic mapper applies the pregnant deltas, the lactating benchmark whenever it
\* applies the lactating deltas, and the age-band benchmark otherwise, whatever the text
\* of health_category.
C27_RdaStageAsScored ==
    \A c \in After("risks") :
        Lower(eng[c].gender.s) = "female"
            => \A n \in NutrientSet :
                  RecordOf(eng[c].deficiency_risks, n).recommended_intake
                      = IntakeText(n, StageBenchmark(eng[c], n))

\* the entry of DIETARY_RISK_FACTORS the demographic mapper scores the engine's user with
ScoredDiet(self) == get_dietary_risk_factors(self.dietary_preference).diet

\* the dietary recommendations of a list for the nutrients whose foods depend on the diet
DietDependent(recommendations) ==
    {i \in 1..Len(recommendations) :
        /\ recommendations[i].category = "dietary"
        /\ recommendations[i].nutrient \in {"iron", "vitamin_b12", "zinc", "protein"}}

\* C28: for iron, vitamin_b12, zinc and protein the foods recommended are the vegetarian
\* list exactly when the demographic mapper resolves the dietary preference to the
\* vegetarian, vegan or eggetarian entry, and the non-vegetarian list exactly when it
\* resolves to non_vegetarian or pescatarian.
C28_FoodsAsScored ==
    \A c \in After("recommendations") : \A i \in DietDependent(eng[c].recommendations) :
        /\ eng[c].recommendations[i].foods
               = food_suggestions(eng[c].recommendations[i].nutrient)[1]
             <=> ScoredDiet(eng[c]) \in {"vegetarian", "vegan", "eggetarian"}
        /\ eng[c].recommendations[i].foods
               = food_suggestions(eng[c].recommendations[i].nutrient)[2]
             <=> ScoredDiet(eng[c]) \in {"non_vegetarian", "pescatarian"}

\* the place of a nutrient in the fixed order of the nutrient loop
NutrientIndex(nutrient) == CHOOSE i \in 1..Len(Nutrients) : Nutrients[i] = nutrient

\* the place of a nutrient's record in a list of risk records
RecordIndex(risks, nutrient) == CHOOSE i \in 1..Len(risks) : risks[i].nutrient = nutrient

IsNotLow(risk) == risk.risk_level # "low"

\* records of equal probability_percent stand in the order of the nutrient loop
TiedRecordsInLoopOrder ==
    \A risks \in RiskLists : \A i, j \in 1..Len(risks) :
        (i < j /\ risks[i].probability_percent = risks[j].probability_percent)
            => NutrientIndex(risks[i].nutrient) < NutrientIndex(risks[j].nutrient)

\* alerts of equal priority stand in the order of their records
TiedAlertsInRecordOrder ==
    \A al \in AlertLists : \A i, j \in 1..Len(al[1]) :
        (i < j /\ al[1][i].priority = al[1][j].priority)
            => RecordIndex(al[2], al[1][i].nutrient) < RecordIndex(al[2], al[1][j].nutrient)

\* C29: records of equal probability_percent appear in the order iron, vitamin_b12,
\* vitamin_d, calcium, magnesium, zinc, protein; alerts of equal priority appear in the
\* order of their records; and the alert list is the list of the records that are not
\* low, in record order.
C29_TiesAndAlertOrder ==
    /\ TiedRecordsInLoopOrder
    /\ TiedAlertsInRecordOrder
    /\ \A al \in AlertLists : NutrientsOf(al[1]) = NutrientsOf(SelectSeq(al[2], IsNotLow))

\* the region keys of the named entries the three lookups return for a location; the
\* national averages and the vitamin-D table's "default" entry are not named entries
NamedRegions(location) ==
    ({get_regional_anemia_data(location).state, get_groundwater_data(location).state}
         \ {""})
    \cup ({get_vitamin_d_regional_risk(location).state} \ {"default"})

\* C30: for every location that is not blank, the named entries the anemia, groundwater
\* and vitamin-D lookups return belong to one region.
C30_LookupsAgreeOnRegion ==
    \A c \in After("geographic") :
        NonBlank(eng[c].location) => Cardinality(NamedRegions(eng[c].location.s)) <= 1

====
